---- MODULE Spec2Model ----
(***************************************************************************)
(* Model of the US holiday / observance generator of the calendar          *)
(* application (lib/usFederalHolidays.ts) and of its event store           *)
(* (store/useCalendarStore.ts).                                            *)
(*                                                                         *)
(* A JavaScript Date is modelled by its time value, counted in minutes     *)
(* since 1970-01-01T00:00Z instead of milliseconds (every Date of the      *)
(* generator is a UTC midnight, and the instants used for `now` are whole  *)
(* minutes), so that the values fit TLC's integers.  Date.UTC, the getUTC* *)
(* getters and getFullYear follow ECMA-262 (MakeDay, DayFromYear,          *)
(* YearFromTime, MonthFromTime, DateFromTime, WeekDay, LocalTime).         *)
(* Strings that the code searches or rewrites (titles, substrings) are     *)
(* sequences of one-character strings; strings that are only built and     *)
(* compared (ids, date keys, decorated titles) are TLA+ strings.           *)
(***************************************************************************)
EXTENDS Integers, Sequences, FiniteSets, Bags, TLC

VARIABLES
  pc,         \* position of the evaluation
  fn,         \* the date helper under evaluation (specification SpecDates)
  arg,        \* its arguments
  ret,        \* its return value (a time value)
  options,    \* the options object of makeUsFederalHolidays
  clock,      \* the current time, read by `new Date()`
  tz,         \* the local time zone: minutes east of UTC
  startYear,  \* locals of makeUsFederalHolidays
  endYear,
  year,
  events,
  result,     \* the returned list
  calls,      \* number of calls of makeUsFederalHolidays started so far
  first,      \* the list returned by the first call
  state,        \* the state of useCalendarStore: events, visibleCategories, authStatus
  localStorage, \* the item 'cala_calendar_v1' of localStorage
  initOnce,     \* the module variable initOnce
  supabase,     \* the backend: whether it is configured, its session, the rows of table events
  requests,     \* the write requests sent to the backend so far, in the order of sending
  inflight,     \* the bag of pending promises and of requests on their way to the backend
  ops,          \* number of operations of the user so far
  removed,      \* history: the ids of the user events that removeEvent removed while signed
                \* in, and that addEvent has not been called with since
  host          \* the component RemindersHost: its state, its refs, its timers

vars == <<pc, fn, arg, ret, options, clock, tz, startYear, endYear, year,
          events, result, calls, first,
          state, localStorage, initOnce, supabase, requests, inflight, ops, removed,
          host>>

\* the value of an omitted option / an unset variable
Absent == "undefined"

\* the store does not exist in the specifications of the generator alone
StoreIdle ==
  /\ state = Absent /\ localStorage = Absent /\ initOnce = FALSE
  /\ supabase = Absent /\ requests = <<>> /\ inflight = <<>> /\ ops = 0
  /\ removed = {} /\ host = Absent

UnchangedStore ==
  UNCHANGED <<state, localStorage, initOnce, supabase, requests, inflight, ops, removed,
              host>>

(***************************************************************************)
(* Bounds of the model.                                                    *)
(***************************************************************************)
\* years given to the date helpers: the range of the Easter tables ...
TableMinYear == 1900
TableMaxYear == 2100
\* ... and years on both sides of the two-digit years that Date.UTC remaps
LegacyMinYear == 98
LegacyMaxYear == 101
\* n of nthWeekdayOfMonth ranges over 1..MaxN
MaxN == 5
\* years given as options to makeUsFederalHolidays: these and the Legacy years
GenMinYear == 2022
GenMaxYear == 2025
\* the year loop of a call runs at most MaxIterations times
MaxIterations == 4
\* makeUsFederalHolidays is called at most MaxCalls times in a row
MaxCalls == 2

\* the number of operations of the user in a run of the store
MaxOps == 2

(***************************************************************************)
(* ECMA-262 date arithmetic.                                               *)
(***************************************************************************)
MinPerDay == 1440

\* JavaScript's % truncates toward zero (the sign of the dividend)
JsMod(a, b) == IF a >= 0 THEN a % b ELSE -((-a) % b)

DaysInYear(y) ==
  IF y % 4 # 0 THEN 365
  ELSE IF y % 100 # 0 THEN 366
  ELSE IF y % 400 # 0 THEN 365
  ELSE 366

DayFromYear(y) ==
  365 * (y - 1970) + ((y - 1969) \div 4) - ((y - 1901) \div 100) + ((y - 1601) \div 400)

Day(t) == t \div MinPerDay

\* the year y with DayFromYear(y) <= day < DayFromYear(y + 1)
YearOfDay(day, approx) ==
  CHOOSE y \in (approx - 2)..(approx + 2) :
    DayFromYear(y) <= day /\ day < DayFromYear(y + 1)

YearFromTime(t) == YearOfDay(Day(t), 1970 + (Day(t) \div 365))

InLeapYear(t) == IF DaysInYear(YearFromTime(t)) = 366 THEN 1 ELSE 0

DayWithinYear(t) == Day(t) - DayFromYear(YearFromTime(t))

\* day within the year of the first day of month m (0..11); MonthStart(12, ..) closes the table
MonthStart(m, leap) ==
  CASE m = 0 -> 0
    [] m = 1 -> 31
    [] m = 2 -> 59 + leap
    [] m = 3 -> 90 + leap
    [] m = 4 -> 120 + leap
    [] m = 5 -> 151 + leap
    [] m = 6 -> 181 + leap
    [] m = 7 -> 212 + leap
    [] m = 8 -> 243 + leap
    [] m = 9 -> 273 + leap
    [] m = 10 -> 304 + leap
    [] m = 11 -> 334 + leap
    [] OTHER -> 365 + leap

\* the month in which day number dayWithinYear of a year falls
MonthOfDay(dayWithinYear, leap) ==
  CHOOSE m \in 0..11 :
    MonthStart(m, leap) <= dayWithinYear /\ dayWithinYear < MonthStart(m + 1, leap)

MonthFromTime(t) == MonthOfDay(DayWithinYear(t), InLeapYear(t))

DateOfDay(dayWithinYear, leap) ==
  dayWithinYear - MonthStart(MonthOfDay(dayWithinYear, leap), leap) + 1

DateFromTime(t) == DateOfDay(DayWithinYear(t), InLeapYear(t))

WeekDay(t) == (Day(t) + 4) % 7

MakeDay(y, m, dt) ==
  LET ym == y + (m \div 12)
      mn == m % 12
      leap == IF DaysInYear(ym) = 366 THEN 1 ELSE 0
  IN  DayFromYear(ym) + MonthStart(mn, leap) + dt - 1

\* Date.UTC(year, monthIndex, day): a year of 0..99 means 1900 + year
DateUTC(y, m, dt) ==
  LET yr == IF 0 <= y /\ y <= 99 THEN 1900 + y ELSE y
  IN  MakeDay(yr, m, dt) * MinPerDay

getUTCFullYear(t) == YearFromTime(t)
getUTCMonth(t) == MonthFromTime(t)
getUTCDate(t) == DateFromTime(t)
getUTCDay(t) == WeekDay(t)

\* Date.prototype.getFullYear: the year of the local time, in time zone zone
getFullYear(t, zone) == YearFromTime(t + zone)

(***************************************************************************)
(* The date rule evaluators.                                               *)
(***************************************************************************)
WEEKDAY ==
  [Sunday |-> 0, Monday |-> 1, Tuesday |-> 2, Wednesday |-> 3,
   Thursday |-> 4, Friday |-> 5, Saturday |-> 6]

nthWeekdayOfMonthSwapped(y, monthIndex, weekday, n) ==
  LET firstDate == DateUTC(y, monthIndex, 1)
      firstWeekday == getUTCDay(firstDate)
      delta == JsMod(firstWeekday - weekday + 7, 7)
      day == 1 + delta + (n - 1) * 7
  IN  DateUTC(y, monthIndex, day)

\* counts the weeks from n instead of n - 1
nthWeekdayOfMonthFromWeekN(y, monthIndex, weekday, n) ==
  LET firstDate == DateUTC(y, monthIndex, 1)
      firstWeekday == getUTCDay(firstDate)
      delta == JsMod(weekday - firstWeekday + 7, 7)
      day == 1 + delta + n * 7
  IN  DateUTC(y, monthIndex, day)

nthWeekdayOfMonth(y, monthIndex, weekday, n) ==
  LET firstDate == DateUTC(y, monthIndex, 1)
      firstWeekday == getUTCDay(firstDate)
      delta == JsMod(weekday - firstWeekday + 7, 7)
      day == 1 + delta + (n - 1) * 7
  IN  DateUTC(y, monthIndex, day)

\* Meeus/Jones/Butcher without the correction term m
easterSundayUtcNoM(y) ==
  LET a == JsMod(y, 19)
      b == y \div 100
      c == JsMod(y, 100)
      d == b \div 4
      e == JsMod(b, 4)
      f == (b + 8) \div 25
      g == (b - f + 1) \div 3
      h == JsMod(19 * a + b - d - g + 15, 30)
      i == c \div 4
      k == JsMod(c, 4)
      l == JsMod(32 + 2 * e + 2 * i - h - k, 7)
      month == (h + l + 114) \div 31
      day == JsMod(h + l + 114, 31) + 1
  IN  DateUTC(y, month - 1, day)

easterSundayUtc(y) ==
  LET a == JsMod(y, 19)
      b == y \div 100
      c == JsMod(y, 100)
      d == b \div 4
      e == JsMod(b, 4)
      f == (b + 8) \div 25
      g == (b - f + 1) \div 3
      h == JsMod(19 * a + b - d - g + 15, 30)
      i == c \div 4
      k == JsMod(c, 4)
      l == JsMod(32 + 2 * e + 2 * i - h - k, 7)
      m == (a + 11 * h + 22 * l) \div 451
      month == (h + l - 7 * m + 114) \div 31
      day == JsMod(h + l - 7 * m + 114, 31) + 1
  IN  DateUTC(y, month - 1, day)

lastWeekdayOfMonthSwapped(y, monthIndex, weekday) ==
  LET last == DateUTC(y, monthIndex + 1, 0)
      lastWeekday == getUTCDay(last)
      delta == JsMod(weekday - lastWeekday + 7, 7)
      day == getUTCDate(last) - delta
  IN  DateUTC(y, monthIndex, day)

lastWeekdayOfMonth(y, monthIndex, weekday) ==
  LET last == DateUTC(y, monthIndex + 1, 0)
      lastWeekday == getUTCDay(last)
      delta == JsMod(lastWeekday - weekday + 7, 7)
      day == getUTCDate(last) - delta
  IN  DateUTC(y, monthIndex, day)

\* a day counted as 60 * 60 * 1000 ms: the factor 24 is missing
addDaysUtcHours(utcDate, deltaDays) == utcDate + deltaDays * 60

addDaysUtc(utcDate, deltaDays) == utcDate + deltaDays * MinPerDay

(***************************************************************************)
(* Strings.                                                                *)
(***************************************************************************)
UpperCaseLetters ==
  <<"A", "B", "C", "D", "E", "F", "G", "H", "I", "J", "K", "L", "M",
    "N", "O", "P", "Q", "R", "S", "T", "U", "V", "W", "X", "Y", "Z">>

LowerCaseLetters ==
  <<"a", "b", "c", "d", "e", "f", "g", "h", "i", "j", "k", "l", "m",
    "n", "o", "p", "q", "r", "s", "t", "u", "v", "w", "x", "y", "z">>

Digits == <<"0", "1", "2", "3", "4", "5", "6", "7", "8", "9">>

Range(s) == {s[i] : i \in DOMAIN s}

\* String.prototype.toLowerCase
LowerChar(c) ==
  IF c \in Range(UpperCaseLetters)
    THEN LowerCaseLetters[CHOOSE i \in DOMAIN UpperCaseLetters : UpperCaseLetters[i] = c]
    ELSE c

\* the string unchanged: no lower-casing
toLowerCaseNone(s) == s

RECURSIVE toLowerCase(_)
toLowerCase(s) == IF s = <<>> THEN <<>> ELSE <<LowerChar(Head(s))>> \o toLowerCase(Tail(s))

\* String.prototype.includes
includes(t, sub) ==
  \E i \in 1..(Len(t) - Len(sub) + 1) : SubSeq(t, i, i + Len(sub) - 1) = sub

\* the TLA+ string of a sequence of characters
RECURSIVE Join(_)
Join(s) == IF s = <<>> THEN "" ELSE Head(s) \o Join(Tail(s))

\* value.toLowerCase().replace(/[^a-z0-9]+/g, '_'): every maximal run of
\* characters other than a-z and 0-9 becomes one underscore
SlugChar(c) == c \in Range(LowerCaseLetters) \cup Range(Digits)

slugifyTitle(value) ==
  LET t == toLowerCase(value)
      Piece(i) ==
        IF SlugChar(t[i]) THEN t[i]
        ELSE IF i > 1 /\ ~SlugChar(t[i - 1]) THEN ""
        ELSE "_"
      RECURSIVE Build(_)
      Build(i) == IF i > Len(t) THEN "" ELSE Piece(i) \o Build(i + 1)
  IN  Build(1)

\* String(n).padStart(2, '0') of a month or a day of month
PadStart2(n) == IF n < 10 THEN "0" \o ToString(n) ELSE ToString(n)

dateKey(utcDate) ==
  LET y == getUTCFullYear(utcDate)
      m == PadStart2(getUTCMonth(utcDate) + 1)
      d == PadStart2(getUTCDate(utcDate))
  IN  ToString(y) \o "-" \o m \o "-" \o d

(***************************************************************************)
(* Emoji decoration.  An emoji is written by its name between colons;      *)
(* equal emoji of the source have equal names.                             *)
(***************************************************************************)
emojiForHolidayTitle(baseTitle) ==
  LET t == toLowerCase(baseTitle)
  IN
      IF includes(t, <<"n", "e", "w", " ", "y", "e", "a", "r", "'", "s">>)
        THEN ":confetti_ball:"
      ELSE IF includes(t, <<"m", "a", "r", "t", "i", "n", " ", "l", "u", "t", "h", "e", "r", " ", "k", "i", "n", "g">>)
        THEN ":raised_fist:"
      ELSE IF includes(t, <<"w", "a", "s", "h", "i", "n", "g", "t", "o", "n", "'", "s", " ", "b", "i", "r", "t", "h", "d", "a", "y">>)
           \/ includes(t, <<"p", "r", "e", "s", "i", "d", "e", "n", "t">>)
        THEN ":flag_us:"
      ELSE IF includes(t, <<"m", "e", "m", "o", "r", "i", "a", "l", " ", "d", "a", "y">>)
        THEN ":candle:"
      ELSE IF includes(t, <<"j", "u", "n", "e", "t", "e", "e", "n", "t", "h">>)
        THEN ":raised_fist:"
      ELSE IF includes(t, <<"i", "n", "d", "e", "p", "e", "n", "d", "e", "n", "c", "e", " ", "d", "a", "y">>)
        THEN ":fireworks:"
      ELSE IF includes(t, <<"l", "a", "b", "o", "r", " ", "d", "a", "y">>)
        THEN ":hammer_and_wrench:"
      ELSE IF includes(t, <<"c", "o", "l", "u", "m", "b", "u", "s", " ", "d", "a", "y">>)
        THEN ":compass:"
      ELSE IF includes(t, <<"v", "e", "t", "e", "r", "a", "n", "s", " ", "d", "a", "y">>)
        THEN ":military_medal:"
      ELSE IF includes(t, <<"t", "h", "a", "n", "k", "s", "g", "i", "v", "i", "n", "g">>)
        THEN ":turkey:"
      ELSE IF includes(t, <<"c", "h", "r", "i", "s", "t", "m", "a", "s">>)
        THEN ":christmas_tree:"
      ELSE IF includes(t, <<"v", "a", "l", "e", "n", "t", "i", "n", "e">>)
        THEN ":red_heart:"
      ELSE IF includes(t, <<"m", "o", "t", "h", "e", "r", "'", "s", " ", "d", "a", "y">>)
           \/ includes(t, <<"m", "o", "t", "h", "e", "r", "s", " ", "d", "a", "y">>)
        THEN ":sparkling_heart:"
      ELSE IF includes(t, <<"s", "t", ".", " ", "p", "a", "t", "r", "i", "c", "k">>)
           \/ includes(t, <<"s", "t", " ", "p", "a", "t", "r", "i", "c", "k">>)
        THEN ":four_leaf_clover:"
      ELSE IF includes(t, <<"h", "a", "l", "l", "o", "w", "e", "e", "n">>)
        THEN ":jack_o_lantern:"
      ELSE IF includes(t, <<"e", "a", "s", "t", "e", "r">>)
        THEN ":rabbit:"
      ELSE IF includes(t, <<"f", "a", "t", "h", "e", "r", "'", "s", " ", "d", "a", "y">>)
           \/ includes(t, <<"f", "a", "t", "h", "e", "r", "s", " ", "d", "a", "y">>)
        THEN ":bearded_person:"
      ELSE IF includes(t, <<"n", "e", "w", " ", "y", "e", "a", "r", "'", "s", " ", "e", "v", "e">>)
        THEN ":clinking_glasses:"
      ELSE IF includes(t, <<"c", "h", "r", "i", "s", "t", "m", "a", "s", " ", "e", "v", "e">>)
        THEN ":candle:"
      ELSE IF includes(t, <<"b", "l", "a", "c", "k", " ", "f", "r", "i", "d", "a", "y">>)
        THEN ":shopping_bags:"
      ELSE IF includes(t, <<"c", "y", "b", "e", "r", " ", "m", "o", "n", "d", "a", "y">>)
        THEN ":desktop_computer:"
      ELSE IF includes(t, <<"e", "a", "r", "t", "h", " ", "d", "a", "y">>)
        THEN ":earth_globe:"
      ELSE IF includes(t, <<"a", "r", "b", "o", "r", " ", "d", "a", "y">>)
        THEN ":deciduous_tree:"
      ELSE IF includes(t, <<"c", "i", "n", "c", "o", " ", "d", "e", " ", "m", "a", "y", "o">>)
        THEN ":flag_mx:"
      ELSE IF includes(t, <<"a", "p", "r", "i", "l", " ", "f", "o", "o", "l">>)
        THEN ":clown_face:"
      ELSE IF includes(t, <<"g", "r", "o", "u", "n", "d", "h", "o", "g">>)
        THEN ":beaver:"
      ELSE IF includes(t, <<"s", "u", "p", "e", "r", " ", "b", "o", "w", "l">>)
        THEN ":football:"
      ELSE IF includes(t, <<"m", "a", "r", "d", "i", " ", "g", "r", "a", "s">>)
        THEN ":performing_arts:"
      ELSE IF includes(t, <<"a", "s", "h", " ", "w", "e", "d", "n", "e", "s", "d", "a", "y">>)
        THEN ":church:"
      ELSE IF includes(t, <<"g", "o", "o", "d", " ", "f", "r", "i", "d", "a", "y">>)
        THEN ":latin_cross:"
      ELSE IF includes(t, <<"p", "a", "l", "m", " ", "s", "u", "n", "d", "a", "y">>)
        THEN ":herb:"
      ELSE IF includes(t, <<"e", "l", "e", "c", "t", "i", "o", "n", " ", "d", "a", "y">>)
        THEN ":ballot_box:"
      ELSE IF includes(t, <<"t", "a", "x", " ", "d", "a", "y">>)
        THEN ":receipt:"
      ELSE IF includes(t, <<"f", "l", "a", "g", " ", "d", "a", "y">>)
        THEN ":white_flag:"
      ELSE IF includes(t, <<"p", "a", "t", "r", "i", "o", "t", " ", "d", "a", "y">>)
        THEN ":dove:"
      ELSE IF includes(t, <<"c", "o", "n", "s", "t", "i", "t", "u", "t", "i", "o", "n", " ", "d", "a", "y">>)
        THEN ":scroll:"
      ELSE IF includes(t, <<"d", "a", "y", "l", "i", "g", "h", "t", " ", "s", "a", "v", "i", "n", "g">>)
           \/ includes(t, <<"d", "s", "t">>)
        THEN ":alarm_clock:"
      ELSE ":calendar:"

\* the titles of holidayCandidates and of observanceCandidates, in table order
HolidayTitles ==
  << <<"N", "e", "w", " ", "Y", "e", "a", "r", "'", "s", " ", "D", "a", "y">>,
     <<"M", "a", "r", "t", "i", "n", " ", "L", "u", "t", "h", "e", "r", " ", "K", "i", "n", "g", " ", "J", "r", ".", " ", "D", "a", "y">>,
     <<"W", "a", "s", "h", "i", "n", "g", "t", "o", "n", "'", "s", " ", "B", "i", "r", "t", "h", "d", "a", "y">>,
     <<"M", "e", "m", "o", "r", "i", "a", "l", " ", "D", "a", "y">>,
     <<"J", "u", "n", "e", "t", "e", "e", "n", "t", "h", " ", "N", "a", "t", "i", "o", "n", "a", "l", " ", "I", "n", "d", "e", "p", "e", "n", "d", "e", "n", "c", "e", " ", "D", "a", "y">>,
     <<"I", "n", "d", "e", "p", "e", "n", "d", "e", "n", "c", "e", " ", "D", "a", "y">>,
     <<"L", "a", "b", "o", "r", " ", "D", "a", "y">>,
     <<"C", "o", "l", "u", "m", "b", "u", "s", " ", "D", "a", "y">>,
     <<"V", "e", "t", "e", "r", "a", "n", "s", " ", "D", "a", "y">>,
     <<"T", "h", "a", "n", "k", "s", "g", "i", "v", "i", "n", "g", " ", "D", "a", "y">>,
     <<"C", "h", "r", "i", "s", "t", "m", "a", "s", " ", "D", "a", "y">>,
     <<"V", "a", "l", "e", "n", "t", "i", "n", "e", "'", "s", " ", "D", "a", "y">>,
     <<"S", "t", ".", " ", "P", "a", "t", "r", "i", "c", "k", "'", "s", " ", "D", "a", "y">>,
     <<"H", "a", "l", "l", "o", "w", "e", "e", "n">>,
     <<"M", "o", "t", "h", "e", "r", "'", "s", " ", "D", "a", "y">>,
     <<"E", "a", "s", "t", "e", "r">> >>

ObservanceTitles ==
  << <<"N", "e", "w", " ", "Y", "e", "a", "r", "'", "s", " ", "E", "v", "e">>,
     <<"C", "h", "r", "i", "s", "t", "m", "a", "s", " ", "E", "v", "e">>,
     <<"G", "r", "o", "u", "n", "d", "h", "o", "g", " ", "D", "a", "y">>,
     <<"A", "p", "r", "i", "l", " ", "F", "o", "o", "l", "s", "'", " ", "D", "a", "y">>,
     <<"E", "a", "r", "t", "h", " ", "D", "a", "y">>,
     <<"A", "r", "b", "o", "r", " ", "D", "a", "y">>,
     <<"C", "i", "n", "c", "o", " ", "d", "e", " ", "M", "a", "y", "o">>,
     <<"F", "a", "t", "h", "e", "r", "'", "s", " ", "D", "a", "y">>,
     <<"F", "l", "a", "g", " ", "D", "a", "y">>,
     <<"P", "a", "t", "r", "i", "o", "t", " ", "D", "a", "y">>,
     <<"C", "o", "n", "s", "t", "i", "t", "u", "t", "i", "o", "n", " ", "D", "a", "y">>,
     <<"D", "a", "y", "l", "i", "g", "h", "t", " ", "S", "a", "v", "i", "n", "g", " ", "T", "i", "m", "e", " ", "B", "e", "g", "i", "n", "s">>,
     <<"D", "a", "y", "l", "i", "g", "h", "t", " ", "S", "a", "v", "i", "n", "g", " ", "T", "i", "m", "e", " ", "E", "n", "d", "s">>,
     <<"E", "l", "e", "c", "t", "i", "o", "n", " ", "D", "a", "y">>,
     <<"B", "l", "a", "c", "k", " ", "F", "r", "i", "d", "a", "y">>,
     <<"C", "y", "b", "e", "r", " ", "M", "o", "n", "d", "a", "y">>,
     <<"P", "a", "l", "m", " ", "S", "u", "n", "d", "a", "y">>,
     <<"G", "o", "o", "d", " ", "F", "r", "i", "d", "a", "y">>,
     <<"A", "s", "h", " ", "W", "e", "d", "n", "e", "s", "d", "a", "y">>,
     <<"M", "a", "r", "d", "i", " ", "G", "r", "a", "s">>,
     <<"S", "u", "p", "e", "r", " ", "B", "o", "w", "l", " ", "S", "u", "n", "d", "a", "y">>,
     <<"T", "a", "x", " ", "D", "a", "y">> >>

\* What the string functions make of each title of the tables, computed once:
\* emojiForHolidayTitle(title), slugifyTitle(title) and the title as a string.
TitleMemo ==
  [t \in Range(HolidayTitles) \cup Range(ObservanceTitles) |->
     [emoji |-> emojiForHolidayTitle(t), slug |-> slugifyTitle(t), text |-> Join(t)]]

TitleInfo(baseTitle) == TitleMemo[baseTitle]

(***************************************************************************)
(* Generated events.                                                       *)
(***************************************************************************)
\* the id without the slug of the title
makeGeneratedEventNoSlug(baseTitle, utcDate, category) ==
  LET startIso == dateKey(utcDate)
      emoji == TitleInfo(baseTitle).emoji
      title == IF emoji # "" THEN emoji \o " " \o TitleInfo(baseTitle).text
               ELSE TitleInfo(baseTitle).text
  IN  [id |-> "holiday_" \o dateKey(utcDate) \o "_" \o Join(toLowerCase(category)),
       title |-> title,
       start |-> startIso,
       allDay |-> TRUE,
       category |-> Join(category),
       source |-> "holiday"]

\* an event that is not flagged all-day
makeGeneratedEventTimed(baseTitle, utcDate, category) ==
  LET startIso == dateKey(utcDate)
      emoji == TitleInfo(baseTitle).emoji
      title == IF emoji # "" THEN emoji \o " " \o TitleInfo(baseTitle).text
               ELSE TitleInfo(baseTitle).text
  IN  [id |-> "holiday_" \o dateKey(utcDate) \o "_" \o TitleInfo(baseTitle).slug
                \o "_" \o Join(toLowerCase(category)),
       title |-> title,
       start |-> startIso,
       allDay |-> FALSE,
       category |-> Join(category),
       source |-> "holiday"]

\* the id numbered by the position in the events list
makeGeneratedEventNumbered(baseTitle, utcDate, category) ==
  LET startIso == dateKey(utcDate)
      emoji == TitleInfo(baseTitle).emoji
      title == IF emoji # "" THEN emoji \o " " \o TitleInfo(baseTitle).text
               ELSE TitleInfo(baseTitle).text
  IN  [id |-> "holiday_" \o ToString(Len(events)) \o "_" \o TitleInfo(baseTitle).slug
                \o "_" \o Join(toLowerCase(category)),
       title |-> title,
       start |-> startIso,
       allDay |-> TRUE,
       category |-> Join(category),
       source |-> "holiday"]

makeGeneratedEvent(baseTitle, utcDate, category) ==
  LET startIso == dateKey(utcDate)
      emoji == TitleInfo(baseTitle).emoji
      title == IF emoji # "" THEN emoji \o " " \o TitleInfo(baseTitle).text
               ELSE TitleInfo(baseTitle).text
  IN  [id |-> "holiday_" \o dateKey(utcDate) \o "_" \o TitleInfo(baseTitle).slug
                \o "_" \o Join(toLowerCase(category)),
       title |-> title,
       start |-> startIso,
       allDay |-> TRUE,
       category |-> Join(category),
       source |-> "holiday"]

HolidayCategory == <<"H", "o", "l", "i", "d", "a", "y">>
ObservanceCategory == <<"O", "b", "s", "e", "r", "v", "a", "n", "c", "e">>

\* the dates computed by one iteration of the year loop
YearDates(y) ==
  LET thanksgiving == nthWeekdayOfMonth(y, 10, WEEKDAY.Thursday, 4)
      easter == easterSundayUtc(y)
      firstMondayNov == nthWeekdayOfMonth(y, 10, WEEKDAY.Monday, 1)
  IN  [newYears |-> DateUTC(y, 0, 1),
       juneteenth |-> DateUTC(y, 5, 19),
       independence |-> DateUTC(y, 6, 4),
       veterans |-> DateUTC(y, 10, 11),
       christmas |-> DateUTC(y, 11, 25),
       mlk |-> nthWeekdayOfMonth(y, 0, WEEKDAY.Monday, 3),
       presidents |-> nthWeekdayOfMonth(y, 1, WEEKDAY.Monday, 3),
       memorial |-> lastWeekdayOfMonth(y, 4, WEEKDAY.Monday),
       labor |-> nthWeekdayOfMonth(y, 8, WEEKDAY.Monday, 1),
       columbus |-> nthWeekdayOfMonth(y, 9, WEEKDAY.Monday, 2),
       thanksgiving |-> thanksgiving,
       valentines |-> DateUTC(y, 1, 14),
       stPatricks |-> DateUTC(y, 2, 17),
       halloween |-> DateUTC(y, 9, 31),
       mothersDay |-> nthWeekdayOfMonth(y, 4, WEEKDAY.Sunday, 2),
       easter |-> easter,
       newYearsEve |-> DateUTC(y, 11, 31),
       christmasEve |-> DateUTC(y, 11, 24),
       groundhogDay |-> DateUTC(y, 1, 2),
       aprilFools |-> DateUTC(y, 3, 1),
       earthDay |-> DateUTC(y, 3, 22),
       cincoDeMayo |-> DateUTC(y, 4, 5),
       flagDay |-> DateUTC(y, 5, 14),
       fathersDay |-> nthWeekdayOfMonth(y, 5, WEEKDAY.Sunday, 3),
       patriotDay |-> DateUTC(y, 8, 11),
       constitutionDay |-> DateUTC(y, 8, 17),
       arborDay |-> nthWeekdayOfMonth(y, 3, WEEKDAY.Friday, 4),
       dstStart |-> nthWeekdayOfMonth(y, 2, WEEKDAY.Sunday, 2),
       dstEnd |-> nthWeekdayOfMonth(y, 10, WEEKDAY.Sunday, 1),
       electionDay |-> addDaysUtc(firstMondayNov, 1),
       blackFriday |-> addDaysUtc(thanksgiving, 1),
       cyberMonday |-> addDaysUtc(thanksgiving, 4),
       palmSunday |-> addDaysUtc(easter, -7),
       goodFriday |-> addDaysUtc(easter, -2),
       ashWednesday |-> addDaysUtc(easter, -46),
       mardiGras |-> addDaysUtc(easter, -47),
       superBowlSunday |-> nthWeekdayOfMonth(y, 1, WEEKDAY.Sunday, 2),
       taxDay |-> DateUTC(y, 3, 15)]

\* The two candidate tables of one iteration, sequences of <<title, date>>,
\* from the record D of the dates of that iteration.
holidayCandidates(D) ==
  << <<HolidayTitles[1], D.newYears>>,
     <<HolidayTitles[2], D.mlk>>,
     <<HolidayTitles[3], D.presidents>>,
     <<HolidayTitles[4], D.memorial>>,
     <<HolidayTitles[5], D.juneteenth>>,
     <<HolidayTitles[6], D.independence>>,
     <<HolidayTitles[7], D.labor>>,
     <<HolidayTitles[8], D.columbus>>,
     <<HolidayTitles[9], D.veterans>>,
     <<HolidayTitles[10], D.thanksgiving>>,
     <<HolidayTitles[11], D.christmas>>,
     <<HolidayTitles[12], D.valentines>>,
     <<HolidayTitles[13], D.stPatricks>>,
     <<HolidayTitles[14], D.halloween>>,
     <<HolidayTitles[15], D.mothersDay>>,
     <<HolidayTitles[16], D.easter>> >>

observanceCandidates(D) ==
  << <<ObservanceTitles[1], D.newYearsEve>>,
     <<ObservanceTitles[2], D.christmasEve>>,
     <<ObservanceTitles[3], D.groundhogDay>>,
     <<ObservanceTitles[4], D.aprilFools>>,
     <<ObservanceTitles[5], D.earthDay>>,
     <<ObservanceTitles[6], D.arborDay>>,
     <<ObservanceTitles[7], D.cincoDeMayo>>,
     <<ObservanceTitles[8], D.fathersDay>>,
     <<ObservanceTitles[9], D.flagDay>>,
     <<ObservanceTitles[10], D.patriotDay>>,
     <<ObservanceTitles[11], D.constitutionDay>>,
     <<ObservanceTitles[12], D.dstStart>>,
     <<ObservanceTitles[13], D.dstEnd>>,
     <<ObservanceTitles[14], D.electionDay>>,
     <<ObservanceTitles[15], D.blackFriday>>,
     <<ObservanceTitles[16], D.cyberMonday>>,
     <<ObservanceTitles[17], D.palmSunday>>,
     <<ObservanceTitles[18], D.goodFriday>>,
     <<ObservanceTitles[19], D.ashWednesday>>,
     <<ObservanceTitles[20], D.mardiGras>>,
     <<ObservanceTitles[21], D.superBowlSunday>>,
     <<ObservanceTitles[22], D.taxDay>> >>

(***************************************************************************)
(* makeUsFederalHolidays.                                                  *)
(***************************************************************************)
\* An optional field of the options object is <<>> when it is omitted and
\* <<v>> when it is given with value v.
Omitted == <<>>
Given(v) == <<v>>
Optional(S) == {Omitted} \cup {Given(v) : v \in S}

\* options?.now ?? new Date()
ResolveNow(opts, clk) == IF opts.now # Omitted THEN opts.now[1] ELSE clk

ResolveStartYearFromClock(opts, currentYear) == currentYear - 1

\* options?.startYear ?? currentYear - 1
ResolveStartYear(opts, currentYear) ==
  IF opts.startYear # Omitted THEN opts.startYear[1] ELSE currentYear - 1

ResolveEndYearLenient(opts, currentYear) ==
  IF opts.endYear = Omitted THEN currentYear + 2
  ELSE IF opts.startYear # Omitted /\ opts.endYear[1] < opts.startYear[1] THEN opts.startYear[1]
  ELSE opts.endYear[1]

\* options?.endYear ?? currentYear + 2
ResolveEndYear(opts, currentYear) ==
  IF opts.endYear # Omitted THEN opts.endYear[1] ELSE currentYear + 2

\* the candidates that pass `if (y < startYear || y > endYear) continue`, as events
PushCandidates(cands, category, sy, ey) ==
  LET RECURSIVE From(_)
      From(i) ==
        IF i > Len(cands) THEN <<>>
        ELSE IF getUTCFullYear(cands[i][2]) < sy \/ getUTCFullYear(cands[i][2]) > ey
          THEN From(i + 1)
        ELSE <<makeGeneratedEvent(cands[i][1], cands[i][2], category)>> \o From(i + 1)
  IN  From(1)

\* what one iteration of the year loop, with dates D, appends to events
YearEvents(D, sy, ey) ==
  PushCandidates(holidayCandidates(D), HolidayCategory, sy, ey)
    \o PushCandidates(observanceCandidates(D), ObservanceCategory, sy, ey)

\* events.filter(e => { if (seen.has(e.id)) return false; seen.add(e.id); return true }):
\* when the filter reaches element i, seen holds the ids of the elements before i
DedupeById(evs) ==
  LET Seen(i) == {evs[j].id : j \in 1..(i - 1)}
      Passes(i) == evs[i].id \notin Seen(i)
      kept == SelectSeq([i \in 1..Len(evs) |-> i], Passes)
  IN  [k \in 1..Len(kept) |-> evs[kept[k]]]

\* the arguments of a date helper, before any is evaluated
NoArg == [year |-> 0, monthIndex |-> 0, weekday |-> 0, n |-> 0]

DatesIdle == fn = Absent /\ arg = NoArg /\ ret = Absent

UnchangedDates == UNCHANGED <<fn, arg, ret>>

\* `now`, startYear, endYear and the empty events list
Begin ==
  /\ pc = "start"
  /\ LET now == ResolveNow(options, clock)
         currentYear == getFullYear(now, tz)
     IN  /\ startYear' = ResolveStartYear(options, currentYear)
         /\ endYear' = ResolveEndYear(options, currentYear)
  /\ events' = <<>>
  /\ year' = startYear'
  /\ pc' = "loop"
  /\ UNCHANGED <<options, clock, tz, result, calls, first>>
  /\ UnchangedDates
  /\ UnchangedStore

\* one iteration of `for (let year = startYear; year <= endYear; year += 1)`
LoopYear ==
  /\ pc = "loop"
  /\ year <= endYear
  /\ \E D \in {YearDates(year)} : events' = events \o YearEvents(D, startYear, endYear)
  /\ year' = year + 1
  /\ UNCHANGED <<pc, options, clock, tz, startYear, endYear, result, calls, first>>
  /\ UnchangedDates
  /\ UnchangedStore

\* the loop is over: de-duplicate by id and return
Return ==
  /\ pc = "loop"
  /\ ~(year <= endYear)
  /\ result' = DedupeById(events)
  /\ first' = IF calls = 1 THEN result' ELSE first
  /\ pc' = "done"
  /\ UNCHANGED <<options, clock, tz, startYear, endYear, year, events, calls>>
  /\ UnchangedDates
  /\ UnchangedStore

(***************************************************************************)
(* Specification SpecGen: calls of makeUsFederalHolidays.  The options are *)
(* drawn at the first call; a later call passes the same startYear and     *)
(* endYear, at another time, in another time zone, with another `now`.     *)
(***************************************************************************)
GenYears == (LegacyMinYear..LegacyMaxYear) \cup (GenMinYear..GenMaxYear)

\* the current time, 2023-12-31T20:00Z or 2024-12-31T20:00Z: the local year
\* depends on the zone
Clocks == {DateUTC(2023, 11, 31) + 1200, DateUTC(2024, 11, 31) + 1200}

\* options.now is any Date: 0100-06-15T12:00Z or 2023-12-31T20:00Z
Instants == {DateUTC(100, 5, 15) + 720, DateUTC(2023, 11, 31) + 1200}

\* UTC-05:00 and UTC+09:00
Zones == {-300, 540}

OptionsSet ==
  [now : Optional(Instants),
   startYear : Optional(GenYears),
   endYear : Optional(GenYears)]

Iterations(opts, clk, zone) ==
  LET currentYear == getFullYear(ResolveNow(opts, clk), zone)
      n == ResolveEndYear(opts, currentYear) - ResolveStartYear(opts, currentYear) + 1
  IN  IF n < 0 THEN 0 ELSE n

InitGen ==
  /\ pc = "start"
  /\ options \in OptionsSet
  /\ clock \in Clocks
  /\ tz \in Zones
  /\ Iterations(options, clock, tz) <= MaxIterations
  /\ startYear = Absent /\ endYear = Absent /\ year = Absent
  /\ events = <<>> /\ result = Absent
  /\ calls = 1 /\ first = Absent
  /\ DatesIdle
  /\ StoreIdle

CallAgain ==
  /\ pc = "done"
  /\ calls < MaxCalls
  /\ \E n \in Optional(Instants) : options' = [options EXCEPT !.now = n]
  /\ clock' \in Clocks
  /\ tz' \in Zones
  /\ Iterations(options', clock', tz') <= MaxIterations
  /\ calls' = calls + 1
  /\ pc' = "start"
  /\ startYear' = Absent /\ endYear' = Absent /\ year' = Absent
  /\ events' = <<>> /\ result' = Absent
  /\ UNCHANGED first
  /\ UnchangedDates
  /\ UnchangedStore

NextGen == Begin \/ LoopYear \/ Return \/ CallAgain

SpecGen == InitGen /\ [][NextGen]_vars

(***************************************************************************)
(* Specification SpecDates: one evaluation of one date rule evaluator, or  *)
(* of the dates of one iteration of the year loop, on arguments drawn from *)
(* the bounded sets.                                                       *)
(***************************************************************************)
HelperYears == (LegacyMinYear..LegacyMaxYear) \cup (TableMinYear..TableMaxYear)

\* endYear - startYear of the call whose loop iteration is evaluated: a call
\* for one year, and a call that goes on for 1900 years
RangeSpans == {0, 1900}

GeneratorIdle ==
  /\ options = [now |-> Omitted, startYear |-> Omitted, endYear |-> Omitted] /\ clock = 0 /\ tz = 0
  /\ startYear = Absent /\ endYear = Absent /\ year = Absent
  /\ events = <<>> /\ result = Absent /\ calls = 0 /\ first = Absent

InitDates ==
  /\ pc = "call"
  /\ ret = Absent
  /\ \/ /\ fn = "easterSundayUtc"
        /\ arg \in [year : HelperYears, monthIndex : {0}, weekday : {0}, n : {0}]
     \/ /\ fn = "nthWeekdayOfMonth"
        /\ arg \in [year : HelperYears, monthIndex : 0..11, weekday : 0..6, n : 1..MaxN]
     \/ /\ fn = "lastWeekdayOfMonth"
        /\ arg \in [year : HelperYears, monthIndex : 0..11, weekday : 0..6, n : {0}]
     \/ /\ fn = "yearDates"
        /\ arg \in {[year |-> y, startYear |-> y, endYear |-> y + s] :
                      y \in HelperYears, s \in RangeSpans}
  /\ GeneratorIdle
  /\ StoreIdle

UnchangedGenerator ==
  UNCHANGED <<options, clock, tz, startYear, endYear, year, events, result, calls, first>>

EvalEaster ==
  /\ pc = "call" /\ fn = "easterSundayUtc"
  /\ ret' = easterSundayUtc(arg.year)
  /\ pc' = "ret"
  /\ UNCHANGED <<fn, arg>>
  /\ UnchangedGenerator
  /\ UnchangedStore

EvalNthWeekday ==
  /\ pc = "call" /\ fn = "nthWeekdayOfMonth"
  /\ ret' = nthWeekdayOfMonth(arg.year, arg.monthIndex, arg.weekday, arg.n)
  /\ pc' = "ret"
  /\ UNCHANGED <<fn, arg>>
  /\ UnchangedGenerator
  /\ UnchangedStore

EvalLastWeekday ==
  /\ pc = "call" /\ fn = "lastWeekdayOfMonth"
  /\ ret' = lastWeekdayOfMonth(arg.year, arg.monthIndex, arg.weekday)
  /\ pc' = "ret"
  /\ UNCHANGED <<fn, arg>>
  /\ UnchangedGenerator
  /\ UnchangedStore

\* the dates that the iteration for year arg.year computes, in a call for
\* arg.startYear .. arg.endYear
EvalYearDates ==
  /\ pc = "call" /\ fn = "yearDates"
  /\ ret' = YearDates(arg.year)
  /\ pc' = "ret"
  /\ UNCHANGED <<fn, arg>>
  /\ UnchangedGenerator
  /\ UnchangedStore

NextDates == EvalEaster \/ EvalNthWeekday \/ EvalLastWeekday \/ EvalYearDates

SpecDates == InitDates /\ [][NextDates]_vars

(***************************************************************************)
(* Reference data for Easter: Knuth's computus (TAOCP vol. 1, 1.3.2,       *)
(* exercise 14), which works from the golden number and the epact, and a   *)
(* table of published dates <<year, month, day>>.                          *)
(***************************************************************************)
ReferenceEaster(y) ==
  LET G == (y % 19) + 1
      C == (y \div 100) + 1
      X == ((3 * C) \div 4) - 12
      Z == ((8 * C + 5) \div 25) - 5
      D == ((5 * y) \div 4) - X - 10
      E0 == (11 * G + 20 + Z - X) % 30
      E == IF (E0 = 25 /\ G > 11) \/ E0 = 24 THEN E0 + 1 ELSE E0
      N0 == 44 - E
      N1 == IF N0 < 21 THEN N0 + 30 ELSE N0
      N == N1 + 7 - ((D + N1) % 7)
  IN  IF N > 31 THEN <<y, 4, N - 31>> ELSE <<y, 3, N>>

PublishedEaster ==
  { <<1900, 4, 15>>, <<1943, 4, 25>>, <<1954, 4, 18>>, <<1961, 4, 2>>,
    <<1981, 4, 19>>, <<2000, 4, 23>>, <<2008, 3, 23>>, <<2011, 4, 24>>,
    <<2018, 4, 1>>, <<2019, 4, 21>>, <<2022, 4, 17>>, <<2024, 3, 31>>,
    <<2025, 4, 20>>, <<2038, 4, 25>>, <<2100, 3, 28>> }

\* the calendar date <<year, month 1..12, day>> of a time value
CivilDate(t) == <<getUTCFullYear(t), getUTCMonth(t) + 1, getUTCDate(t)>>

Returned(f) == pc = "ret" /\ fn = f

\* C1: for every year of the table range 1900..2100, easterSundayUtc returns
\* the Gregorian Easter Sunday of that year: the date of the reference
\* computus, and the published date for each year of the table.
C1_EasterMatchesReference ==
  (Returned("easterSundayUtc") /\ arg.year \in TableMinYear..TableMaxYear) =>
    /\ CivilDate(ret) = ReferenceEaster(arg.year)
    /\ \A p \in PublishedEaster : p[1] = arg.year => CivilDate(ret) = p

\* an Easter whose date needs the correction term m of the algorithm (1954-04-18)
C1_Witness ==
  /\ Returned("easterSundayUtc")
  /\ arg.year = 1954
  /\ CivilDate(ret) = <<1954, 4, 18>>

\* C6: the date returned by nthWeekdayOfMonth falls on the requested weekday,
\* for every year, month, weekday and n >= 1.
C6_NthWeekdayMatches ==
  Returned("nthWeekdayOfMonth") => getUTCDay(ret) = arg.weekday

\* the 4th Thursday of November 2024 is the 28th
C6_Witness ==
  /\ Returned("nthWeekdayOfMonth")
  /\ arg = [year |-> 2024, monthIndex |-> 10, weekday |-> 4, n |-> 4]
  /\ CivilDate(ret) = <<2024, 11, 28>>

\* the year Date.UTC gives to a year argument
UtcYearOf(y) == IF y \in 0..99 THEN 1900 + y ELSE y

\* C7: lastWeekdayOfMonth returns a date of the requested month, on the
\* requested weekday, within the last 7 days of the month: the same weekday
\* one week later is already in the next month.
C7_LastWeekdayIsLast ==
  Returned("lastWeekdayOfMonth") =>
    /\ getUTCMonth(ret) = arg.monthIndex
    /\ getUTCFullYear(ret) = UtcYearOf(arg.year)
    /\ getUTCDay(ret) = arg.weekday
    /\ getUTCDate(ret) + 7 > getUTCDate(DateUTC(arg.year, arg.monthIndex + 1, 0))
    /\ getUTCMonth(addDaysUtc(ret, 7)) # arg.monthIndex

\* the last Thursday of February 2024 is the leap day
C7_Witness ==
  /\ Returned("lastWeekdayOfMonth")
  /\ arg.year = 2024 /\ arg.monthIndex = 1 /\ arg.weekday = 4
  /\ CivilDate(ret) = <<2024, 2, 29>>

(***************************************************************************)
(* Properties of makeUsFederalHolidays, under SpecGen.                     *)
(***************************************************************************)
Done == pc = "done"

BothGiven == options.startYear # Omitted /\ options.endYear # Omitted

\* the date keys of the days of calendar year y
KeysOfYear(y) ==
  {ToString(y) \o "-" \o PadStart2(m) \o "-" \o PadStart2(d) : m \in 1..12, d \in 1..31}

\* the indices of the returned events with title t
Titled(t) == {i \in DOMAIN result : result[i].title = t}

OneTitledOn(t, day) ==
  /\ Cardinality(Titled(t)) = 1
  /\ \A i \in Titled(t) : result[i].start = day

\* C2: makeUsFederalHolidays({startYear: 2024, endYear: 2024}) has exactly one
\* New Year's Day, on 2024-01-01, exactly one Thanksgiving Day, on 2024-11-28,
\* and exactly one Memorial Day, on 2024-05-27.
C2_Holidays2024 ==
  (Done /\ options.startYear = Given(2024) /\ options.endYear = Given(2024)) =>
    /\ OneTitledOn(":confetti_ball: New Year's Day", "2024-01-01")
    /\ OneTitledOn(":turkey: Thanksgiving Day", "2024-11-28")
    /\ OneTitledOn(":candle: Memorial Day", "2024-05-27")

C2_Witness ==
  /\ Done /\ options.startYear = Given(2024) /\ options.endYear = Given(2024)
  /\ Len(result) = 38
  /\ \E i \in DOMAIN result :
       result[i].title = ":candle: Memorial Day" /\ result[i].start = "2024-05-27"

\* the year of `now`, or of the current time when `now` is omitted, in the local zone
CurrentYear ==
  getFullYear(IF options.now # Omitted THEN options.now[1] ELSE clock, tz)

\* C3: with startYear and endYear both given, a later call returns the list of
\* the first call, event for event, whatever `now`, the current time and the
\* time zone of either call.
C3_SamePairSameList ==
  (Done /\ calls >= 2 /\ BothGiven) => result = first

\* a second call, made in a year outside the range, returns the first call's events
C3_Witness ==
  /\ Done /\ calls = 2 /\ BothGiven
  /\ CurrentYear > endYear
  /\ Len(result) > 38
  /\ result = first

Triple(e) == <<e.start, e.title, e.category>>

\* C4: the ids of the returned list are pairwise distinct, candidates with
\* different (date, title, category) never share an id, and every candidate
\* that passed the year filter is returned, also when it shares its date with
\* a candidate of another rule.
C4_IdsDistinct ==
  Done =>
    /\ \A i, j \in DOMAIN result : i # j => result[i].id # result[j].id
    /\ \A i, j \in DOMAIN events :
         Triple(events[i]) # Triple(events[j]) => events[i].id # events[j].id
    /\ \A i \in DOMAIN events : \E j \in DOMAIN result : result[j] = events[i]

\* Earth Day and Arbor Day of 2022 fall on the same day and are both returned
C4_Witness ==
  /\ Done
  /\ \E i, j \in DOMAIN result :
       /\ result[i].title = ":earth_globe: Earth Day"
       /\ result[j].title = ":deciduous_tree: Arbor Day"
       /\ result[i].start = "2022-04-22" /\ result[j].start = "2022-04-22"
       /\ result[i].category = result[j].category
       /\ result[i].id # result[j].id

\* C5: every returned event has category 'Holiday' or 'Observance', is flagged
\* all-day and has source 'holiday'.
C5_CategoryAllDaySource ==
  Done =>
    \A i \in DOMAIN result :
      /\ result[i].category \in {"Holiday", "Observance"}
      /\ result[i].allDay = TRUE
      /\ result[i].source = "holiday"

C5_Witness ==
  /\ Done
  /\ \E i, j \in DOMAIN result :
       result[i].category = "Holiday" /\ result[j].category = "Observance"

\* C8: for startYear <= endYear, every returned event is dated in a year of
\* startYear..endYear, and every year of startYear..endYear has events.
C8_EveryYearOfRange ==
  (Done /\ startYear <= endYear) =>
    /\ \A i \in DOMAIN result :
         \E y \in startYear..endYear : result[i].start \in KeysOfYear(y)
    /\ \A y \in startYear..endYear :
         \E i \in DOMAIN result : result[i].start \in KeysOfYear(y)

\* C9: when endYear < startYear the returned list is empty.
C9_ReversedRangeEmpty ==
  /\ (Done /\ BothGiven /\ options.endYear[1] < options.startYear[1]) => result = <<>>
  /\ (Done /\ endYear < startYear) => result = <<>>

C9_Witness ==
  /\ Done /\ BothGiven
  /\ options.startYear = Given(2025) /\ options.endYear = Given(2024)
  /\ result = <<>>

\* the years in which returned events are dated, among those of the default window
YearsWithEvents ==
  {y \in (CurrentYear - 2)..(CurrentYear + 3) :
     \E i \in DOMAIN result : result[i].start \in KeysOfYear(y)}

\* C10: with startYear and endYear both omitted, the events are those of the
\* four years currentYear-1 .. currentYear+2; an option that is given replaces
\* its own bound only.
C10_DefaultWindow ==
  Done =>
    /\ (options.startYear = Omitted /\ options.endYear = Omitted) =>
         /\ startYear = CurrentYear - 1 /\ endYear = CurrentYear + 2
         /\ YearsWithEvents = (CurrentYear - 1)..(CurrentYear + 2)
    /\ (options.startYear # Omitted /\ options.endYear = Omitted) =>
         startYear = options.startYear[1] /\ endYear = CurrentYear + 2
    /\ (options.startYear = Omitted /\ options.endYear # Omitted) =>
         startYear = CurrentYear - 1 /\ endYear = options.endYear[1]

(***************************************************************************)
(* The two tiers of generated events, under SpecGen.                       *)
(***************************************************************************)
\* the title makeGeneratedEvent gives an event of base title t
Decorated(t) ==
  IF TitleInfo(t).emoji # "" THEN TitleInfo(t).emoji \o " " \o TitleInfo(t).text
  ELSE TitleInfo(t).text

\* the base title of a generated event, as a string
BaseTitle(e) ==
  TitleInfo(CHOOSE t \in DOMAIN TitleMemo : Decorated(t) = e.title).text

\* the legal public holidays of 5 U.S.C. 6103(a)
FederalHolidayNames ==
  {"New Year's Day", "Martin Luther King Jr. Day", "Washington's Birthday",
   "Memorial Day", "Juneteenth National Independence Day", "Independence Day",
   "Labor Day", "Columbus Day", "Veterans Day", "Thanksgiving Day",
   "Christmas Day"}

\* popular dates that are no federal holidays
PopularNames ==
  {"Valentine's Day", "St. Patrick's Day", "Halloween", "Mother's Day", "Easter"}

\* C11: every returned event of category 'Holiday' is a US federal holiday,
\* and the popular non-federal dates (Valentine's Day, St. Patrick's Day,
\* Halloween, Mother's Day, Easter) are returned with category 'Observance'.
C11_HolidayMeansFederal ==
  Done =>
    \A i \in DOMAIN result :
      /\ result[i].category = "Holiday" =>
           BaseTitle(result[i]) \in FederalHolidayNames
      /\ BaseTitle(result[i]) \in PopularNames =>
           result[i].category = "Observance"

(***************************************************************************)
(* Stability of ids, under SpecGen.                                        *)
(***************************************************************************)
\* what makeUsFederalHolidays({startYear: y, endYear: y}) returns
SingleYearCall(y) == DedupeById(YearEvents(YearDates(y), y, y))

\* the lists of the single-year calls for a..b, one after the other
RECURSIVE CatYears(_, _)
CatYears(a, b) == IF a > b THEN <<>> ELSE SingleYearCall(a) \o CatYears(a + 1, b)

\* the base title of a generated event, as the sequence of its characters
TitleOf(e) == CHOOSE t \in DOMAIN TitleMemo : Decorated(t) = e.title

\* the id as a function of the date, the base title and the category only
IdOfTriple(start, baseTitle, category) ==
  "holiday_" \o start \o "_" \o TitleInfo(baseTitle).slug \o "_"
    \o (IF category = "Holiday" THEN "holiday" ELSE "observance")

\* C12: the events of a year, ids included, are those of the single-year call
\* for that year, whatever range contains the year and whatever `now` is, and
\* every id is determined by the event's date, base title and category.
C12_IdsStable ==
  (Done /\ startYear <= endYear) =>
    /\ result = CatYears(startYear, endYear)
    /\ \A i \in DOMAIN result :
         result[i].id =
           IdOfTriple(result[i].start, TitleOf(result[i]), result[i].category)

\* Thanksgiving 2024 in a call for 2022..2025, made with `now` in the year 100
C12_Witness ==
  /\ Done /\ startYear = 2022 /\ endYear = 2025
  /\ options.now # Omitted /\ CurrentYear = 100
  /\ \E i \in DOMAIN result :
       result[i].id = "holiday_2024-11-28_thanksgiving_day_holiday"

(***************************************************************************)
(* The dates of one year, under SpecDates.  ret holds the dates computed   *)
(* by the iteration for year arg.year; a candidate is generated when its   *)
(* date passes the year filter of the call, arg.startYear .. arg.endYear.  *)
(***************************************************************************)
Candidates(D) == holidayCandidates(D) \o observanceCandidates(D)

\* the dates of the generated events with base title name
GeneratedDates(name) ==
  {Candidates(ret)[i][2] : i \in
     {j \in DOMAIN Candidates(ret) :
        /\ TitleInfo(Candidates(ret)[j][1]).text = name
        /\ ~(\/ getUTCFullYear(Candidates(ret)[j][2]) < arg.startYear
              \/ getUTCFullYear(Candidates(ret)[j][2]) > arg.endYear)}}

\* exactly one event titled name is generated, and its date satisfies P
GeneratedOn(name, P(_)) ==
  /\ Cardinality(GeneratedDates(name)) = 1
  /\ \A d \in GeneratedDates(name) : P(d)

\* C13: Palm Sunday, Good Friday, Ash Wednesday and Mardi Gras are generated
\* 7, 2, 46 and 47 days before the Easter Sunday of the year, on a Sunday, a
\* Friday, a Wednesday and a Tuesday, in the calendar year of that Easter.
C13_EasterOffsets ==
  Returned("yearDates") =>
    \A easter \in GeneratedDates("Easter") :
      LET Before(days, weekday, d) ==
            /\ Day(easter) - Day(d) = days
            /\ d % MinPerDay = 0
            /\ getUTCDay(d) = weekday
            /\ getUTCFullYear(d) = getUTCFullYear(easter)
          PalmSunday(d) == Before(7, WEEKDAY.Sunday, d)
          GoodFriday(d) == Before(2, WEEKDAY.Friday, d)
          AshWednesday(d) == Before(46, WEEKDAY.Wednesday, d)
          MardiGras(d) == Before(47, WEEKDAY.Tuesday, d)
      IN  /\ getUTCDay(easter) = WEEKDAY.Sunday
          /\ GeneratedOn("Palm Sunday", PalmSunday)
          /\ GeneratedOn("Good Friday", GoodFriday)
          /\ GeneratedOn("Ash Wednesday", AshWednesday)
          /\ GeneratedOn("Mardi Gras", MardiGras)

\* C14: Thanksgiving Day is the 4th Thursday of November (day 22..28), Black
\* Friday is the day after it, a Friday, and Cyber Monday is 4 days after it,
\* a Monday between 26 November and 2 December of the same year.
C14_ThanksgivingAnchored ==
  Returned("yearDates") =>
    \A thanksgiving \in GeneratedDates("Thanksgiving Day") :
      LET y == getUTCFullYear(thanksgiving)
          BlackFriday(d) ==
            /\ Day(d) - Day(thanksgiving) = 1 /\ d % MinPerDay = 0
            /\ getUTCDay(d) = WEEKDAY.Friday
          CyberMonday(d) ==
            /\ Day(d) - Day(thanksgiving) = 4 /\ d % MinPerDay = 0
            /\ getUTCDay(d) = WEEKDAY.Monday
            /\ MakeDay(y, 10, 26) <= Day(d) /\ Day(d) <= MakeDay(y, 11, 2)
            /\ getUTCFullYear(d) = y
      IN  /\ getUTCMonth(thanksgiving) = 10
          /\ getUTCDate(thanksgiving) \in 22..28
          /\ getUTCDay(thanksgiving) = WEEKDAY.Thursday
          /\ GeneratedOn("Black Friday", BlackFriday)
          /\ GeneratedOn("Cyber Monday", CyberMonday)

\* 2024: Thanksgiving on 28 November, Cyber Monday on 2 December
C14_Witness ==
  /\ Returned("yearDates") /\ arg.year = 2024 /\ arg.endYear = 2024
  /\ GeneratedDates("Thanksgiving Day") = {DateUTC(2024, 10, 28)}
  /\ GeneratedDates("Cyber Monday") = {DateUTC(2024, 11, 2)}

\* C15: Election Day is the Tuesday right after the first Monday of
\* November: a Tuesday dated 2..8 November, the day after a Monday dated
\* 1..7 November.
C15_ElectionDay ==
  Returned("yearDates") =>
    \A d \in GeneratedDates("Election Day") :
      /\ getUTCDay(d) = WEEKDAY.Tuesday
      /\ getUTCMonth(d) = 10
      /\ getUTCDate(d) \in 2..8
      /\ getUTCDay(d - MinPerDay) = WEEKDAY.Monday
      /\ getUTCMonth(d - MinPerDay) = 10
      /\ getUTCDate(d - MinPerDay) \in 1..7

\* 2021: 1 November is a Monday, Election Day is 2 November
C15_Witness ==
  /\ Returned("yearDates") /\ arg.year = 2021
  /\ GeneratedDates("Election Day") = {DateUTC(2021, 10, 2)}

(***************************************************************************)
(* Specification SpecTitles: one evaluation of emojiForHolidayTitle on a   *)
(* title of the tables or another sample title, or of makeGeneratedEvent   *)
(* on a title of the tables.                                               *)
(***************************************************************************)
TableTitles == Range(HolidayTitles) \cup Range(ObservanceTitles)

\* titles outside the tables: "Pi Day", "HALLOWEEN PARTY", "Presidents Day",
\* "Mothers Day", "Fathers Day", "St Patrick", "DST Ends", "Boxing Day",
\* "New Year", "Kwanzaa", "Day" and the empty string
OtherTitles ==
  {<<"P", "i", " ", "D", "a", "y">>,
   <<"H", "A", "L", "L", "O", "W", "E", "E", "N", " ", "P", "A", "R", "T", "Y">>,
   <<"P", "r", "e", "s", "i", "d", "e", "n", "t", "s", " ", "D", "a", "y">>,
   <<"M", "o", "t", "h", "e", "r", "s", " ", "D", "a", "y">>,
   <<"F", "a", "t", "h", "e", "r", "s", " ", "D", "a", "y">>,
   <<"S", "t", " ", "P", "a", "t", "r", "i", "c", "k">>,
   <<"D", "S", "T", " ", "E", "n", "d", "s">>,
   <<"B", "o", "x", "i", "n", "g", " ", "D", "a", "y">>,
   <<"N", "e", "w", " ", "Y", "e", "a", "r">>,
   <<"K", "w", "a", "n", "z", "a", "a">>,
   <<"D", "a", "y">>,
   <<>>}

\* 2024-01-01, 2024-02-29 and 2025-12-31
SampleDates == {DateUTC(2024, 0, 1), DateUTC(2024, 1, 29), DateUTC(2025, 11, 31)}

InitTitles ==
  /\ pc = "call"
  /\ ret = Absent
  /\ \/ /\ fn = "emojiForHolidayTitle"
        /\ arg \in [baseTitle : TableTitles \cup OtherTitles]
     \/ /\ fn = "makeGeneratedEvent"
        /\ arg \in [baseTitle : TableTitles, utcDate : SampleDates,
                    category : {HolidayCategory, ObservanceCategory}]
  /\ GeneratorIdle
  /\ StoreIdle

EvalEmoji ==
  /\ pc = "call" /\ fn = "emojiForHolidayTitle"
  /\ ret' = emojiForHolidayTitle(arg.baseTitle)
  /\ pc' = "ret"
  /\ UNCHANGED <<fn, arg>>
  /\ UnchangedGenerator
  /\ UnchangedStore

EvalMakeEvent ==
  /\ pc = "call" /\ fn = "makeGeneratedEvent"
  /\ ret' = makeGeneratedEvent(arg.baseTitle, arg.utcDate, arg.category)
  /\ pc' = "ret"
  /\ UNCHANGED <<fn, arg>>
  /\ UnchangedGenerator
  /\ UnchangedStore

NextTitles == EvalEmoji \/ EvalMakeEvent

SpecTitles == InitTitles /\ [][NextTitles]_vars

(***************************************************************************)
(* The emoji rules as a declared list: <<substrings, emoji>> in the order  *)
(* of the source, and the first-match policy over that list.               *)
(***************************************************************************)
EmojiRules ==
  << << << <<"n", "e", "w", " ", "y", "e", "a", "r", "'", "s">> >>, ":confetti_ball:" >>,
     << << <<"m", "a", "r", "t", "i", "n", " ", "l", "u", "t", "h", "e", "r", " ", "k", "i", "n", "g">> >>, ":raised_fist:" >>,
     << << <<"w", "a", "s", "h", "i", "n", "g", "t", "o", "n", "'", "s", " ", "b", "i", "r", "t", "h", "d", "a", "y">>, <<"p", "r", "e", "s", "i", "d", "e", "n", "t">> >>, ":flag_us:" >>,
     << << <<"m", "e", "m", "o", "r", "i", "a", "l", " ", "d", "a", "y">> >>, ":candle:" >>,
     << << <<"j", "u", "n", "e", "t", "e", "e", "n", "t", "h">> >>, ":raised_fist:" >>,
     << << <<"i", "n", "d", "e", "p", "e", "n", "d", "e", "n", "c", "e", " ", "d", "a", "y">> >>, ":fireworks:" >>,
     << << <<"l", "a", "b", "o", "r", " ", "d", "a", "y">> >>, ":hammer_and_wrench:" >>,
     << << <<"c", "o", "l", "u", "m", "b", "u", "s", " ", "d", "a", "y">> >>, ":compass:" >>,
     << << <<"v", "e", "t", "e", "r", "a", "n", "s", " ", "d", "a", "y">> >>, ":military_medal:" >>,
     << << <<"t", "h", "a", "n", "k", "s", "g", "i", "v", "i", "n", "g">> >>, ":turkey:" >>,
     << << <<"c", "h", "r", "i", "s", "t", "m", "a", "s">> >>, ":christmas_tree:" >>,
     << << <<"v", "a", "l", "e", "n", "t", "i", "n", "e">> >>, ":red_heart:" >>,
     << << <<"m", "o", "t", "h", "e", "r", "'", "s", " ", "d", "a", "y">>, <<"m", "o", "t", "h", "e", "r", "s", " ", "d", "a", "y">> >>, ":sparkling_heart:" >>,
     << << <<"s", "t", ".", " ", "p", "a", "t", "r", "i", "c", "k">>, <<"s", "t", " ", "p", "a", "t", "r", "i", "c", "k">> >>, ":four_leaf_clover:" >>,
     << << <<"h", "a", "l", "l", "o", "w", "e", "e", "n">> >>, ":jack_o_lantern:" >>,
     << << <<"e", "a", "s", "t", "e", "r">> >>, ":rabbit:" >>,
     << << <<"f", "a", "t", "h", "e", "r", "'", "s", " ", "d", "a", "y">>, <<"f", "a", "t", "h", "e", "r", "s", " ", "d", "a", "y">> >>, ":bearded_person:" >>,
     << << <<"n", "e", "w", " ", "y", "e", "a", "r", "'", "s", " ", "e", "v", "e">> >>, ":clinking_glasses:" >>,
     << << <<"c", "h", "r", "i", "s", "t", "m", "a", "s", " ", "e", "v", "e">> >>, ":candle:" >>,
     << << <<"b", "l", "a", "c", "k", " ", "f", "r", "i", "d", "a", "y">> >>, ":shopping_bags:" >>,
     << << <<"c", "y", "b", "e", "r", " ", "m", "o", "n", "d", "a", "y">> >>, ":desktop_computer:" >>,
     << << <<"e", "a", "r", "t", "h", " ", "d", "a", "y">> >>, ":earth_globe:" >>,
     << << <<"a", "r", "b", "o", "r", " ", "d", "a", "y">> >>, ":deciduous_tree:" >>,
     << << <<"c", "i", "n", "c", "o", " ", "d", "e", " ", "m", "a", "y", "o">> >>, ":flag_mx:" >>,
     << << <<"a", "p", "r", "i", "l", " ", "f", "o", "o", "l">> >>, ":clown_face:" >>,
     << << <<"g", "r", "o", "u", "n", "d", "h", "o", "g">> >>, ":beaver:" >>,
     << << <<"s", "u", "p", "e", "r", " ", "b", "o", "w", "l">> >>, ":football:" >>,
     << << <<"m", "a", "r", "d", "i", " ", "g", "r", "a", "s">> >>, ":performing_arts:" >>,
     << << <<"a", "s", "h", " ", "w", "e", "d", "n", "e", "s", "d", "a", "y">> >>, ":church:" >>,
     << << <<"g", "o", "o", "d", " ", "f", "r", "i", "d", "a", "y">> >>, ":latin_cross:" >>,
     << << <<"p", "a", "l", "m", " ", "s", "u", "n", "d", "a", "y">> >>, ":herb:" >>,
     << << <<"e", "l", "e", "c", "t", "i", "o", "n", " ", "d", "a", "y">> >>, ":ballot_box:" >>,
     << << <<"t", "a", "x", " ", "d", "a", "y">> >>, ":receipt:" >>,
     << << <<"f", "l", "a", "g", " ", "d", "a", "y">> >>, ":white_flag:" >>,
     << << <<"p", "a", "t", "r", "i", "o", "t", " ", "d", "a", "y">> >>, ":dove:" >>,
     << << <<"c", "o", "n", "s", "t", "i", "t", "u", "t", "i", "o", "n", " ", "d", "a", "y">> >>, ":scroll:" >>,
     << << <<"d", "a", "y", "l", "i", "g", "h", "t", " ", "s", "a", "v", "i", "n", "g">>, <<"d", "s", "t">> >>, ":alarm_clock:" >> >>

GenericEmoji == ":calendar:"

LowerCased(t) == [i \in 1..Len(t) |-> LowerChar(t[i])]

\* sub occurs in t at some offset
Occurs(sub, t) ==
  \E i \in 0..(Len(t) - Len(sub)) : \A k \in 1..Len(sub) : t[i + k] = sub[k]

\* the rules of which a substring occurs in the lower-cased title
RuleHits(title) ==
  {r \in DOMAIN EmojiRules :
     \E j \in DOMAIN EmojiRules[r][1] : Occurs(EmojiRules[r][1][j], LowerCased(title))}

FirstHitEmoji(title) ==
  IF RuleHits(title) = {} THEN GenericEmoji
  ELSE EmojiRules[CHOOSE r \in RuleHits(title) : \A q \in RuleHits(title) : r <= q][2]

\* C16: emojiForHolidayTitle returns the emoji of the first rule, in declared
\* order, of which a substring occurs in the lower-cased title, the generic
\* calendar emoji when there is none; the title of a generated event is that
\* emoji, a space and the base title.
C16_FirstMatchWins ==
  /\ Returned("emojiForHolidayTitle") => ret = FirstHitEmoji(arg.baseTitle)
  /\ Returned("makeGeneratedEvent") =>
       ret.title = FirstHitEmoji(arg.baseTitle) \o " " \o Join(arg.baseTitle)

\* "Juneteenth National Independence Day" is hit by two rules and gets the
\* emoji of the first
C16_Witness ==
  /\ Returned("emojiForHolidayTitle")
  /\ arg.baseTitle = HolidayTitles[5]
  /\ Cardinality(RuleHits(arg.baseTitle)) = 2
  /\ ret = ":raised_fist:"

\* C17: no title of the tables is hit by more than one emoji rule, so that
\* every rule that hits a title, those for "new year's eve" and "christmas
\* eve" included, decides its emoji, in any rule order.
C17_RulesDoNotOverlap ==
  (Returned("emojiForHolidayTitle") /\ arg.baseTitle \in TableTitles) =>
    /\ Cardinality(RuleHits(arg.baseTitle)) <= 1
    /\ \A r \in RuleHits(arg.baseTitle) : ret = EmojiRules[r][2]

(***************************************************************************)
(* The event store (store/useCalendarStore.ts).                            *)
(*                                                                         *)
(* An event is a record; a property that an object does not have is       *)
(* missing from the record's domain, and a property holding `undefined`    *)
(* holds Absent.  The events of the model carry the properties id, title,  *)
(* start, end, allDay, category, done and source; notes, the location and  *)
(* the reminder are never set, and the backend's table has the reminder    *)
(* column.  Of the state of the store, events, visibleCategories and       *)
(* authStatus are modelled.  The persist middleware writes                 *)
(* partialize(state) to localStorage after the store is hydrated and after *)
(* every set().                                                            *)
(***************************************************************************)
\* e.f, for a property f that e may not have
Field(e, f) == IF f \in DOMAIN e THEN e[f] ELSE Absent

\* Boolean(e.f), for a property f that is a boolean when e has it
BooleanField(e, f) == f \in DOMAIN e /\ e[f]

\* { ...e, ...patch }
Spread(e, patch) ==
  [f \in DOMAIN e \cup DOMAIN patch |-> IF f \in DOMAIN patch THEN patch[f] ELSE e[f]]

ALL_CATEGORIES ==
  <<"Work", "Personal", "Birthday", "Health", "Learning", "Social", "Travel",
    "Holiday", "Observance">>

DEFAULT_VISIBLE_CATEGORIES == <<"Birthday", "Health", "Holiday">>

\* the ids of the model that do not start with 'holiday_': those of the events
\* that the user enters and of the rows of the backend
PlainIds == {"u1", "u2", "u3"}

\* id.startsWith('holiday_'), on the ids of the model: the generated ones
\* start with 'holiday_' (makeGeneratedEvent), the plain ones do not
startsWithHoliday(id) == id \notin PlainIds

isHolidayEventByCategory(e) == e.category = "Holiday"

isHolidayEvent(e) ==
  Field(e, "source") = "holiday" \/ e.category = "Holiday" \/ startsWithHoliday(e.id)

\* makeUsFederalHolidays as a whole: the list that the call returns
makeUsFederalHolidays(opts, clk, zone) ==
  LET currentYear == getFullYear(ResolveNow(opts, clk), zone)
      sy == ResolveStartYear(opts, currentYear)
      ey == ResolveEndYear(opts, currentYear)
      RECURSIVE Loop(_)
      Loop(y) == IF y <= ey THEN YearEvents(YearDates(y), sy, ey) \o Loop(y + 1) ELSE <<>>
  IN  DedupeById(Loop(sy))

\* the store's browser: its clock stands at 2024-03-01T15:00Z, in UTC-05:00
StoreClocks == {DateUTC(2024, 2, 1) + 900}

StoreZones == {-300}

\* makeUsFederalHolidays({ now: new Date() }): the clock of the store's browser
\* stands still, and `result` holds the list that this call returns
baseHolidayEvents == result

keepUserEventsAll(evs) == evs

keepUserEvents(evs) ==
  LET Kept(e) == ~isHolidayEvent(e)
  IN  SelectSeq(evs, Kept)

\* Array.from(byId.values()) after `for (const e of evs) byId.set(e.id, e)`: a
\* Map keeps a key at the position of its first insertion, with the value of
\* its last one
MapValues(evs) ==
  LET IsFirst(i) == \A j \in 1..(i - 1) : evs[j].id # evs[i].id
      Last(i) == CHOOSE j \in i..Len(evs) :
                   /\ evs[j].id = evs[i].id
                   /\ \A k \in (j + 1)..Len(evs) : evs[k].id # evs[i].id
      keys == SelectSeq([i \in 1..Len(evs) |-> i], IsFirst)
  IN  [k \in 1..Len(keys) |-> evs[Last(keys[k])]]

\* the elements of evs whose id no element before them has
FirstById(evs) ==
  LET IsFirst(i) == \A j \in 1..(i - 1) : evs[j].id # evs[i].id
      keys == SelectSeq([i \in 1..Len(evs) |-> i], IsFirst)
  IN  [k \in 1..Len(keys) |-> evs[keys[k]]]

rebuildEventsWithFreshHolidays(existing) ==
  baseHolidayEvents \o MapValues(keepUserEvents(existing))

\* the strings of the model that are longer than 10 characters, with their
\* first 10 characters; every other string of the model is a date of 10
\* characters
Slices ==
  [s \in {"2024-03-05T10:00", "2024-03-04T00:00", "2024-03-06T09:00"} |->
     CASE s = "2024-03-05T10:00" -> "2024-03-05"
       [] s = "2024-03-04T00:00" -> "2024-03-04"
       [] s = "2024-03-06T09:00" -> "2024-03-06"]

\* typeof s === 'string' && s.length >= 10 ? s.slice(0, 10) : s
Slice10(s) == IF s \in DOMAIN Slices THEN Slices[s] ELSE s

normalizeAllDay(e) ==
  IF ~BooleanField(e, "allDay") THEN e
  ELSE Spread(e, [start |-> Slice10(e.start), end |-> Slice10(Field(e, "end"))])

\* the strings that start takes in the model, in the order of localeCompare
StartOrder ==
  <<"2024-03-04", "2024-03-04T00:00", "2024-03-05", "2024-03-05T10:00",
    "2024-03-06", "2024-03-06T09:00">>

StartRank(s) == CHOOSE i \in 1..Len(StartOrder) : StartOrder[i] = s

\* evs.sort((a, b) => a.start.localeCompare(b.start)): the sort is stable
SortByStart(evs) ==
  LET RECURSIVE From(_)
      From(r) ==
        IF r > Len(StartOrder) THEN <<>>
        ELSE LET Here(e) == StartRank(e.start) = r
             IN  SelectSeq(evs, Here) \o From(r + 1)
  IN  From(1)

\* new Set(cleaned.length > 0 ? cleaned : DEFAULT_VISIBLE_CATEGORIES)
sanitizeVisibleCategories(input) ==
  LET cleaned == input \cap Range(ALL_CATEGORIES)
  IN  IF cleaned # {} THEN cleaned ELSE Range(DEFAULT_VISIBLE_CATEGORIES)

\* JSON.stringify leaves out a property that holds undefined
Json(e) == [f \in {g \in DOMAIN e : g # "end" \/ e[g] # Absent} |-> e[f]]

JsonAll(evs) == [i \in 1..Len(evs) |-> Json(evs[i])]

partialize(st) ==
  [userEvents |-> keepUserEvents(st.events),
   visibleCategories |-> st.visibleCategories]

\* what the middleware stores: the slice, serialized
Persisted(st) ==
  Given([userEvents |-> JsonAll(partialize(st).userEvents),
         visibleCategories |-> partialize(st).visibleCategories])

merge(persisted, current) ==
  LET userEvents == persisted.userEvents
      Kept(e) == ~isHolidayEvent(e)
      kept == SelectSeq(userEvents, Kept)
      set == [i \in 1..Len(kept) |-> normalizeAllDay(Spread(kept[i], [source |-> "user"]))]
  IN  [current EXCEPT
         !.events = baseHolidayEvents \o MapValues(set),
         !.visibleCategories = sanitizeVisibleCategories(persisted.visibleCategories)]

\* the state that create() builds, before the middleware hydrates it
InitialState(configured) ==
  [events |-> baseHolidayEvents,
   visibleCategories |-> Range(DEFAULT_VISIBLE_CATEGORIES),
   authStatus |-> IF configured THEN "signedOut" ELSE "unconfigured"]

\* the state after hydration from the stored item
Hydrated(stored, configured) ==
  IF stored = Omitted THEN InitialState(configured)
  ELSE merge(stored[1], InitialState(configured))

(***************************************************************************)
(* The backend: the table `events` is a set of rows, one for an id.  A     *)
(* write request travels to the backend and is applied there, or fails,    *)
(* some time after it was sent.                                            *)
(***************************************************************************)
Null == "null"

\* the row that addEvent and refreshFromDb send for event e
UpsertRow(e) ==
  [id |-> e.id,
   title |-> e.title,
   start |-> e.start,
   end |-> IF Field(e, "end") = Absent THEN Null ELSE e.end,
   all_day |-> BooleanField(e, "allDay"),
   category |-> e.category,
   done |-> BooleanField(e, "done")]

\* the event that refreshFromDb makes of a row
DbEvent(row) ==
  [id |-> row.id,
   title |-> row.title,
   start |-> row.start,
   end |-> IF row.end = Null THEN Absent ELSE row.end,
   allDay |-> row.all_day,
   category |-> IF row.category \in Range(ALL_CATEGORIES) THEN row.category ELSE "Personal",
   done |-> row.done,
   source |-> "user"]

\* the object `update` of updateEvent
UpdateOf(patch) ==
  [c \in ({"title", "start", "end", "category", "done"} \cap DOMAIN patch)
           \cup (IF "allDay" \in DOMAIN patch THEN {"all_day"} ELSE {}) |->
     IF c = "all_day" THEN patch.allDay ELSE patch[c]]

Request(op, id, rows) == [op |-> op, id |-> id, rows |-> rows]

\* the table after the backend has carried out a request
Applied(rows, req) ==
  CASE req.op = "upsert" ->
         {r \in rows : \A i \in 1..Len(req.rows) : req.rows[i].id # r.id} \cup Range(req.rows)
    [] req.op = "update" ->
         {IF r.id = req.id THEN Spread(r, req.rows[1]) ELSE r : r \in rows}
    [] req.op = "delete" ->
         {r \in rows : r.id # req.id}

\* select(...).order('start', { ascending: true }): the rows in an order of start
Ordered(rows) ==
  {q \in [1..Cardinality(rows) -> rows] :
     /\ \A i, j \in DOMAIN q : i # j => q[i] # q[j]
     /\ \A i, j \in DOMAIN q : i < j => StartRank(q[i].start) <= StartRank(q[j].start)}

(***************************************************************************)
(* Specification SpecStore: the store in a browser.  The application calls *)
(* init() when it mounts; from then on the user adds, edits and removes    *)
(* events, signs in and out, clears the local data and reloads the page,   *)
(* while promises resolve and requests reach the backend in any order.     *)
(***************************************************************************)
\* a pending promise, or a request on its way
Item(kind, body) == [kind |-> kind, body |-> body]

One(item) == SetToBag({item})

Pending(kind) == {it \in BagToSet(inflight) : it.kind = kind}

\* the events that the user creates in the model: a timed event of category
\* Work, and an all-day event of category Holiday
NewEvents ==
  {[id |-> "u1", title |-> "Dentist", start |-> "2024-03-05T10:00", allDay |-> FALSE,
    category |-> "Work"],
   [id |-> "u2", title |-> "Family day", start |-> "2024-03-04T00:00", allDay |-> TRUE,
    category |-> "Holiday", source |-> "user"]}

\* the edit of the model: the event is done, and moves to category Personal
Patches == {[done |-> TRUE, category |-> "Personal"]}

\* the tables that the backend starts with: empty, or one row that another
\* device wrote
InitialRows ==
  {{},
   {[id |-> "u3", title |-> "Standup", start |-> "2024-03-06T09:00", end |-> Null,
     all_day |-> FALSE, category |-> "Errand", done |-> FALSE]}}

\* the ids of the generated events of a list: the first holiday and the
\* first observance
GeneratedSample(evs) ==
  LET Of(c) == {i \in 1..Len(evs) : Field(evs[i], "source") = "holiday" /\ evs[i].category = c}
      First(c) == IF Of(c) = {} THEN {}
                  ELSE {evs[CHOOSE i \in Of(c) : \A j \in Of(c) : i <= j].id}
  IN  First("Holiday") \cup First("Observance")

\* the ids that the user edits or removes: those of the events on the screen
TargetIds ==
  {state.events[i].id : i \in {j \in 1..Len(state.events) : state.events[j].id \in PlainIds}}
    \cup GeneratedSample(state.events)

\* the history of removals after handler name has run with arguments a:
\* removeEvent(id) records the id when it takes an event out of the store and
\* sends the delete; addEvent(event) forgets the id of its event
Removals(name, a) ==
  CASE name = "removeEvent" ->
         IF /\ \E i \in 1..Len(state.events) : state.events[i].id = a[1]
            /\ \A i \in 1..Len(state.events) :
                 state.events[i].id = a[1] => ~isHolidayEvent(state.events[i])
            /\ supabase.configured /\ state.authStatus = "signedIn"
           THEN removed \cup {a[1]}
           ELSE removed
    [] name = "addEvent" -> removed \ {a[1].id}
    [] OTHER -> removed

\* the variables of the generator stay as they are; fn and arg record the
\* handler that ran last
StoreStep(name, a) ==
  /\ fn' = name
  /\ arg' = a
  /\ removed' = Removals(name, a)
  /\ UNCHANGED <<pc, ret, options, clock, tz, startYear, endYear, year, events, result,
                 calls, first, host>>

\* set(st): the middleware stores the slice of the new state
Set(st) ==
  /\ state' = st
  /\ localStorage' = Persisted(st)

\* a request is sent
Send(req) ==
  /\ requests' = Append(requests, req)
  /\ inflight' = inflight (+) One(Item("write", <<req, "handler">>))

\* void get().refreshFromDb(): up to its first await
RefreshStarted(bag) ==
  IF supabase.configured THEN bag (+) One(Item("refreshFromDb.getSession", <<>>)) ELSE bag

InitStore ==
  /\ pc = "store" /\ fn = Absent /\ arg = NoArg /\ ret = Absent
  /\ options = [now |-> Omitted, startYear |-> Omitted, endYear |-> Omitted]
  /\ clock \in StoreClocks /\ tz \in StoreZones
  /\ startYear = Absent /\ endYear = Absent /\ year = Absent
  /\ events = <<>> /\ calls = 0 /\ first = Absent
  /\ result = makeUsFederalHolidays([now |-> Given(clock), startYear |-> Omitted,
                                     endYear |-> Omitted], clock, tz)
  /\ supabase \in [configured : BOOLEAN, session : BOOLEAN, rows : InitialRows]
  /\ ~supabase.configured => (~supabase.session /\ supabase.rows = {})
  /\ state = Hydrated(Omitted, supabase.configured)
  /\ localStorage = Persisted(state)
  /\ initOnce = FALSE
  /\ requests = <<>>
  /\ inflight = EmptyBag
  /\ ops = 0
  /\ removed = {}
  /\ host = Absent

\* the callback of onAuthStateChange, and the end of the promise of init
SessionSeen(st, session) ==
  IF session THEN [st EXCEPT !.authStatus = "signedIn"]
  ELSE [st EXCEPT !.authStatus = "signedOut",
                  !.events = rebuildEventsWithFreshHolidays(st.events)]

init ==
  /\ pc = "store"
  /\ ~initOnce
  /\ initOnce' = TRUE
  /\ IF ~supabase.configured
       THEN /\ Set([state EXCEPT !.authStatus = "unconfigured",
                                 !.events = rebuildEventsWithFreshHolidays(state.events)])
            /\ UNCHANGED inflight
       ELSE /\ Set([state EXCEPT !.authStatus = "loading"])
            /\ inflight' = inflight (+) One(Item("init.getSession", <<>>))
  /\ UNCHANGED <<supabase, requests, ops>>
  /\ StoreStep("init", <<>>)

\* supabase.auth.getSession().then(...) of init
initSession ==
  /\ pc = "store"
  /\ \E it \in Pending("init.getSession"), error \in BOOLEAN :
       IF error
         THEN /\ Set([state EXCEPT !.authStatus = "signedOut"])
              /\ inflight' = inflight (-) One(it)
         ELSE /\ Set(SessionSeen(state, supabase.session))
              /\ inflight' = IF supabase.session THEN RefreshStarted(inflight (-) One(it))
                             ELSE inflight (-) One(it)
  /\ UNCHANGED <<initOnce, supabase, requests, ops>>
  /\ StoreStep("init.then", <<>>)

\* the session of the backend changes, or is announced again, and the listener
\* that init registered runs
onAuthStateChange(session) ==
  /\ pc = "store"
  /\ ops < MaxOps
  /\ supabase.configured
  /\ initOnce
  /\ supabase' = [supabase EXCEPT !.session = session]
  /\ Set(SessionSeen(state, session))
  /\ inflight' = IF session THEN RefreshStarted(inflight) ELSE inflight
  /\ ops' = ops + 1
  /\ UNCHANGED <<initOnce, requests>>
  /\ StoreStep("onAuthStateChange", <<session>>)

signOut ==
  /\ pc = "store"
  /\ ops < MaxOps
  /\ initOnce
  /\ IF ~supabase.configured
       THEN /\ Set([state EXCEPT !.authStatus = "unconfigured",
                                 !.events = rebuildEventsWithFreshHolidays(state.events)])
            /\ UNCHANGED inflight
       ELSE /\ inflight' = inflight (+) One(Item("signOut", <<>>))
            /\ UNCHANGED <<state, localStorage>>
  /\ ops' = ops + 1
  /\ UNCHANGED <<initOnce, supabase, requests>>
  /\ StoreStep("signOut", <<>>)

\* await supabase.auth.signOut() is over: the session is gone, the listener
\* has run, and signOut goes on
signOutResolved ==
  /\ pc = "store"
  /\ \E it \in Pending("signOut") :
       /\ inflight' = inflight (-) One(it)
       /\ supabase' = [supabase EXCEPT !.session = FALSE]
       /\ Set(SessionSeen(SessionSeen(state, FALSE), FALSE))
  /\ UNCHANGED <<initOnce, requests, ops>>
  /\ StoreStep("signOut.then", <<>>)

refreshFromDb ==
  /\ pc = "store"
  /\ ops < MaxOps
  /\ initOnce
  /\ inflight' = RefreshStarted(inflight)
  /\ ops' = ops + 1
  /\ UNCHANGED <<state, localStorage, initOnce, supabase, requests>>
  /\ StoreStep("refreshFromDb", <<>>)

\* refreshFromDb after `await supabase.auth.getSession()`
refreshSession ==
  /\ pc = "store"
  /\ \E it \in Pending("refreshFromDb.getSession"), sessionError \in BOOLEAN :
       IF sessionError
         THEN /\ inflight' = inflight (-) One(it)
              /\ UNCHANGED <<state, localStorage>>
       ELSE IF ~supabase.session
         THEN /\ inflight' = inflight (-) One(it)
              /\ Set([state EXCEPT !.events = rebuildEventsWithFreshHolidays(state.events)])
       ELSE /\ inflight' = (inflight (-) One(it)) (+) One(Item("refreshFromDb.select", <<>>))
            /\ UNCHANGED <<state, localStorage>>
  /\ UNCHANGED <<initOnce, supabase, requests, ops>>
  /\ StoreStep("refreshFromDb.session", <<>>)

\* the backend answers the select of refreshFromDb: with an error, after which
\* refreshFromDb returns, or with the rows that it holds now
select ==
  /\ pc = "store"
  /\ \E it \in Pending("refreshFromDb.select"), error \in BOOLEAN :
       IF error THEN inflight' = inflight (-) One(it)
       ELSE \E data \in Ordered(supabase.rows) :
              inflight' = (inflight (-) One(it)) (+) One(Item("refreshFromDb.data", data))
  /\ UNCHANGED <<state, localStorage, initOnce, supabase, requests, ops>>
  /\ StoreStep("select", <<>>)

\* refreshFromDb from the answer of the select on: dbEvents, the merge with the
\* local events, the set and the upsert
refreshMerge ==
  /\ pc = "store"
  /\ \E it \in Pending("refreshFromDb.data") :
       LET data == it.body
           dbEvents == [i \in 1..Len(data) |-> DbEvent(data[i])]
           localUserEvents == keepUserEvents(state.events)
           InDb(e) == \E i \in 1..Len(dbEvents) : dbEvents[i].id = e.id
           NotInDb(e) == ~InDb(e)
           missing == FirstById(SelectSeq(localUserEvents, NotInDb))
           toUpsert == [i \in 1..Len(missing) |-> Spread(missing[i], [source |-> "user"])]
           mergedUserEvents == SortByStart(MapValues(dbEvents) \o toUpsert)
       IN  /\ Set([state EXCEPT !.events = baseHolidayEvents \o mergedUserEvents])
           /\ IF Len(toUpsert) > 0
                THEN LET req == Request("upsert", Absent,
                                        [i \in 1..Len(toUpsert) |-> UpsertRow(toUpsert[i])])
                     IN  /\ requests' = Append(requests, req)
                         /\ inflight' = (inflight (-) One(it)) (+) One(Item("write", <<req, "refreshFromDb">>))
                ELSE /\ inflight' = inflight (-) One(it)
                     /\ UNCHANGED requests
  /\ UNCHANGED <<initOnce, supabase, ops>>
  /\ StoreStep("refreshFromDb.data", <<>>)

\* a write request reaches the backend, which carries it out or refuses it;
\* arg records whether an event handler or refreshFromDb had sent it
write ==
  /\ pc = "store"
  /\ \E it \in Pending("write"), error \in BOOLEAN :
       /\ inflight' = inflight (-) One(it)
       /\ supabase' = IF error THEN supabase
                      ELSE [supabase EXCEPT !.rows = Applied(supabase.rows, it.body[1])]
       /\ StoreStep("write", <<it.body[2]>>)
  /\ UNCHANGED <<state, localStorage, initOnce, requests, ops>>

clearLocalData ==
  /\ pc = "store"
  /\ ops < MaxOps
  /\ initOnce
  /\ Set([state EXCEPT !.events = baseHolidayEvents,
                       !.visibleCategories = Range(DEFAULT_VISIBLE_CATEGORIES)])
  /\ inflight' = IF state.authStatus = "signedIn" THEN RefreshStarted(inflight) ELSE inflight
  /\ ops' = ops + 1
  /\ UNCHANGED <<initOnce, supabase, requests>>
  /\ StoreStep("clearLocalData", <<>>)

\* get().events.find((e) => e.id === id) finds a holiday
FindsHoliday(st, id) ==
  \E i \in 1..Len(st.events) :
    /\ st.events[i].id = id
    /\ \A j \in 1..(i - 1) : st.events[j].id # id
    /\ isHolidayEvent(st.events[i])

\* whether the handlers reach the backend
Online(st) == supabase.configured /\ st.authStatus = "signedIn"

\* normalizeAllDay(nextEvent) of addEvent
Normalized(event) ==
  normalizeAllDay(Spread(event, [source |-> IF Field(event, "source") = Absent THEN "user"
                                            ELSE event.source]))

\* the application gives a new event a fresh id (newId: uuidv4), so the id is
\* that of no event of the store and of no row of the backend
addEvent(event) ==
  /\ pc = "store"
  /\ ops < MaxOps
  /\ initOnce
  /\ \A i \in 1..Len(state.events) : state.events[i].id # event.id
  /\ \A r \in supabase.rows : r.id # event.id
  /\ LET normalized == Normalized(event)
     IN  /\ Set([state EXCEPT !.events = <<normalized>> \o @,
                              !.visibleCategories = @ \cup {normalized.category}])
         /\ IF isHolidayEvent(normalized) \/ ~Online(state)
              THEN UNCHANGED <<requests, inflight>>
              ELSE Send(Request("upsert", Absent, <<UpsertRow(normalized)>>))
  /\ ops' = ops + 1
  /\ UNCHANGED <<initOnce, supabase>>
  /\ StoreStep("addEvent", <<event>>)

\* the state that updateEvent leaves
updateEventSet(st, id, patch) ==
  IF FindsHoliday(st, id) THEN st
  ELSE [st EXCEPT
          !.events = [i \in 1..Len(@) |->
                        IF @[i].id # id THEN @[i] ELSE normalizeAllDay(Spread(@[i], patch))],
          !.visibleCategories = IF "category" \in DOMAIN patch THEN @ \cup {patch.category}
                                ELSE @]

\* the requests that updateEvent sends
updateEventSent(st, id, patch) ==
  IF FindsHoliday(st, id) \/ ~Online(st) \/ DOMAIN UpdateOf(patch) = {} THEN <<>>
  ELSE <<Request("update", id, <<UpdateOf(patch)>>)>>

updateEvent(id, patch) ==
  /\ pc = "store"
  /\ ops < MaxOps
  /\ initOnce
  /\ state' = updateEventSet(state, id, patch)
  /\ localStorage' = IF FindsHoliday(state, id) THEN localStorage ELSE Persisted(state')
  /\ IF updateEventSent(state, id, patch) = <<>> THEN UNCHANGED <<requests, inflight>>
     ELSE Send(updateEventSent(state, id, patch)[1])
  /\ ops' = ops + 1
  /\ UNCHANGED <<initOnce, supabase>>
  /\ StoreStep("updateEvent", <<id, patch>>)

\* the state that removeEvent leaves
removeEventSet(st, id) ==
  IF FindsHoliday(st, id) THEN st
  ELSE LET Other(e) == e.id # id
       IN  [st EXCEPT !.events = SelectSeq(@, Other)]

\* the requests that removeEvent sends
removeEventSent(st, id) ==
  IF FindsHoliday(st, id) \/ ~Online(st) THEN <<>>
  ELSE <<Request("delete", id, <<>>)>>

removeEvent(id) ==
  /\ pc = "store"
  /\ ops < MaxOps
  /\ initOnce
  /\ state' = removeEventSet(state, id)
  /\ localStorage' = IF FindsHoliday(state, id) THEN localStorage ELSE Persisted(state')
  /\ IF removeEventSent(state, id) = <<>> THEN UNCHANGED <<requests, inflight>>
     ELSE Send(removeEventSent(state, id)[1])
  /\ ops' = ops + 1
  /\ UNCHANGED <<initOnce, supabase>>
  /\ StoreStep("removeEvent", <<id>>)

\* the page is loaded again: the module is evaluated anew, the store is
\* created and hydrated from localStorage; the promises of the old page are
\* gone, the requests that it sent are still on their way
reload ==
  /\ pc = "store"
  /\ ops < MaxOps
  /\ initOnce
  /\ initOnce' = FALSE
  /\ Set(Hydrated(localStorage, supabase.configured))
  /\ inflight' = [it \in Pending("write") |-> inflight[it]]
  /\ ops' = ops + 1
  /\ UNCHANGED <<supabase, requests>>
  /\ StoreStep("reload", <<>>)

NextStore ==
  \/ init
  \/ initSession
  \/ \E session \in BOOLEAN : onAuthStateChange(session)
  \/ signOut
  \/ signOutResolved
  \/ refreshFromDb
  \/ refreshSession
  \/ select
  \/ refreshMerge
  \/ write
  \/ clearLocalData
  \/ \E event \in NewEvents : addEvent(event)
  \/ \E id \in TargetIds, patch \in Patches : updateEvent(id, patch)
  \/ \E id \in TargetIds : removeEvent(id)
  \/ reload

SpecStore == InitStore /\ [][NextStore]_vars

(***************************************************************************)
(* Claims about the store.                                                 *)
(***************************************************************************)
\* id is the id of an event that makeUsFederalHolidays returns to the store
IsGeneratedId(id) ==
  \E i \in 1..Len(baseHolidayEvents) : baseHolidayEvents[i].id = id

\* the event of the store with this id
StoredEvent(id) ==
  state.events[CHOOSE i \in 1..Len(state.events) : state.events[i].id = id]

\* C18: updateEvent(id, patch) and removeEvent(id), with the id of an event
\* that makeUsFederalHolidays returns (of category Holiday or Observance),
\* leave events and visibleCategories as they are and send no request to the
\* backend: a step of one of the two handlers on such an id changes neither
\* the state of the store, nor the stored slice, nor the requests sent or on
\* their way, nor the backend.
C18_GeneratedUntouched ==
  [][(fn' \in {"updateEvent", "removeEvent"} /\ IsGeneratedId(arg'[1]))
       => /\ state'.events = state.events
          /\ state'.visibleCategories = state.visibleCategories
          /\ UNCHANGED <<state, localStorage, requests, inflight, supabase>>]_vars

\* updateEvent has run on the id of a generated observance, with a patch that
\* names a category that is not visible, while the user is signed in
C18_Witness ==
  /\ fn = "updateEvent"
  /\ IsGeneratedId(arg[1])
  /\ StoredEvent(arg[1]).category = "Observance"
  /\ arg[2].category \notin state.visibleCategories
  /\ Online(state)

\* the rows of the upsert requests sent so far
UpsertedRows ==
  UNION {Range(requests[k].rows) : k \in {j \in 1..Len(requests) : requests[j].op = "upsert"}}

\* the events of the stored slice
StoredUserEvents == IF localStorage = Omitted THEN {} ELSE Range(localStorage[1].userEvents)

\* C19: after any sequence of operations of the store, no generated holiday or
\* observance event is in the slice that is written to localStorage, and none
\* is in an upsert sent to the backend; the generated events are in memory:
\* the events of the store hold the list that baseHolidayEvents() computes.
C19_GeneratedStayInMemory ==
  pc = "store" =>
    /\ \A e \in StoredUserEvents :
         /\ ~IsGeneratedId(e.id)
         /\ Field(e, "source") # "holiday"
         /\ e \notin Range(baseHolidayEvents)
    /\ \A r \in UpsertedRows : ~IsGeneratedId(r.id)
    /\ \E k \in 0..(Len(state.events) - Len(baseHolidayEvents)) :
         SubSeq(state.events, k + 1, k + Len(baseHolidayEvents)) = baseHolidayEvents

\* refreshFromDb has merged the rows of the backend with an event that the
\* user entered before signing in: the event is in the stored slice and was
\* sent in an upsert, next to the generated events of the store
C19_Witness ==
  /\ fn = "refreshFromDb.data"
  /\ \E r \in UpsertedRows : r.id = "u1"
  /\ \E e \in StoredUserEvents : e.id = "u1"
  /\ \E e \in StoredUserEvents : e.id = "u3"
  /\ Len(requests) = 1
  /\ IsGeneratedId(state.events[1].id)

\* the steps that replace the holidays of the store: those of init, of signOut
\* and of the listener of the session, of refreshFromDb without a session, and
\* the rehydration of a new page
RefreshSteps ==
  {"init", "init.then", "onAuthStateChange", "signOut", "signOut.then",
   "refreshFromDb.session", "reload"}

\* the events of a list that the user entered
UserEntered(evs) == {e \in Range(evs) : Field(e, "source") = "user"}

\* event e is in the list, with the same properties
Holds(evs, e) == \E x \in Range(evs) : Json(x) = Json(e)

\* C20: a holiday refresh replaces only generated events: every event with
\* source 'user', whatever its category, that is in the store before a step
\* that rebuilds the events with fresh holidays, or before a rehydration, is
\* in the store after it, unchanged.
C20_UserEventsSurvive ==
  [][fn' \in RefreshSteps
       => \A e \in UserEntered(state.events) : Holds(state'.events, e)]_vars

\* the same for the events of the other categories, which holds
UserEventsOfOtherCategoriesSurvive ==
  [][fn' \in RefreshSteps
       => \A e \in UserEntered(state.events) :
            e.category # "Holiday" => Holds(state'.events, e)]_vars

\* C21: 'Daylight Saving Time Begins' is the 2nd Sunday of March, a Sunday
\* dated 8..14 March, and 'Daylight Saving Time Ends' is the 1st Sunday of
\* November, a Sunday dated 1..7 November; the iteration of a year from 100
\* on generates each of them once, in that year.
C21_DaylightSaving ==
  Returned("yearDates") =>
    LET Begins(d) ==
          /\ d % MinPerDay = 0
          /\ getUTCDay(d) = WEEKDAY.Sunday
          /\ getUTCMonth(d) = 2
          /\ getUTCDate(d) \in 8..14
        Ends(d) ==
          /\ d % MinPerDay = 0
          /\ getUTCDay(d) = WEEKDAY.Sunday
          /\ getUTCMonth(d) = 10
          /\ getUTCDate(d) \in 1..7
    IN  /\ \A d \in GeneratedDates("Daylight Saving Time Begins") : Begins(d)
        /\ \A d \in GeneratedDates("Daylight Saving Time Ends") : Ends(d)
        /\ arg.year >= 100 =>
             /\ Cardinality(GeneratedDates("Daylight Saving Time Begins")) = 1
             /\ Cardinality(GeneratedDates("Daylight Saving Time Ends")) = 1
             /\ \A d \in GeneratedDates("Daylight Saving Time Begins")
                           \cup GeneratedDates("Daylight Saving Time Ends") :
                  getUTCFullYear(d) = arg.year

\* 2024: the time changes on 10 March and on 3 November
C21_Witness ==
  /\ Returned("yearDates") /\ arg.year = 2024 /\ arg.endYear = 2024
  /\ GeneratedDates("Daylight Saving Time Begins") = {DateUTC(2024, 2, 10)}
  /\ GeneratedDates("Daylight Saving Time Ends") = {DateUTC(2024, 10, 3)}

\* C22: for every year, month, weekday and n in 1..4, nthWeekdayOfMonth
\* returns the n-th occurrence of the weekday in the month: a date on that
\* weekday, of the same month and year, whose day of month lies in
\* 7*(n-1)+1 .. 7*n.
C22_NthOccurrence ==
  (Returned("nthWeekdayOfMonth") /\ arg.n \in 1..4) =>
    /\ ret % MinPerDay = 0
    /\ getUTCDay(ret) = arg.weekday
    /\ getUTCMonth(ret) = arg.monthIndex
    /\ getUTCFullYear(ret) = arg.year
    /\ getUTCDate(ret) \in (7 * (arg.n - 1) + 1)..(7 * arg.n)

\* what holds for every year: the same, in the year Date.UTC resolves to
NthOccurrenceOfResolvedYear ==
  (Returned("nthWeekdayOfMonth") /\ arg.n \in 1..4) =>
    /\ ret % MinPerDay = 0
    /\ getUTCDay(ret) = arg.weekday
    /\ getUTCMonth(ret) = arg.monthIndex
    /\ getUTCFullYear(ret) = UtcYearOf(arg.year)
    /\ getUTCDate(ret) \in (7 * (arg.n - 1) + 1)..(7 * arg.n)

\* the days of the month, counted on the calendar, that fall on the weekday
OccurrencesInMonth(y, monthIndex, weekday) ==
  {d \in 1..31 : /\ getUTCMonth(DateUTC(y, monthIndex, d)) = monthIndex
                 /\ getUTCDay(DateUTC(y, monthIndex, d)) = weekday}

FirstOccurrence(y, monthIndex, weekday) ==
  LET occ == OccurrencesInMonth(y, monthIndex, weekday)
  IN  DateUTC(y, monthIndex, CHOOSE d \in occ : \A o \in occ : d <= o)

\* C23: nthWeekdayOfMonth has no bounds check on n: with n = 5 in a month
\* that holds only four occurrences of the weekday it still returns a date,
\* one of the following month, on the requested weekday, exactly 28 days
\* after the first occurrence of the weekday in the requested month.
C23_FifthOverflows ==
  (/\ Returned("nthWeekdayOfMonth")
   /\ arg.n = 5
   /\ Cardinality(OccurrencesInMonth(arg.year, arg.monthIndex, arg.weekday)) = 4) =>
    /\ ret \in Int
    /\ ret % MinPerDay = 0
    /\ getUTCDay(ret) = arg.weekday
    /\ getUTCMonth(ret) = (arg.monthIndex + 1) % 12
    /\ getUTCDate(ret) \in 1..7
    /\ Day(ret) - Day(DateUTC(arg.year, arg.monthIndex, 1)) \in 28..34
    /\ ret = addDaysUtc(FirstOccurrence(arg.year, arg.monthIndex, arg.weekday), 28)

\* the 5th Monday of February 2023 (Mondays 6, 13, 20, 27) is 6 March 2023,
\* and the 5th Sunday of December 2024 is 5 January 2025
C23_Witness ==
  /\ Returned("nthWeekdayOfMonth")
  /\ arg.n = 5
  /\ \/ /\ arg.year = 2023 /\ arg.monthIndex = 1 /\ arg.weekday = WEEKDAY.Monday
        /\ OccurrencesInMonth(2023, 1, WEEKDAY.Monday) = {6, 13, 20, 27}
        /\ CivilDate(ret) = <<2023, 3, 6>>
     \/ /\ arg.year = 2024 /\ arg.monthIndex = 11 /\ arg.weekday = WEEKDAY.Wednesday
        /\ Cardinality(OccurrencesInMonth(2024, 11, WEEKDAY.Wednesday)) = 4
        /\ CivilDate(ret) = <<2025, 1, 1>>

\* C24: Arbor Day is generated on the 4th Friday of April, a Friday dated
\* 22..28 April; it is the last Friday of April except in the years whose
\* April has five Fridays (1 April is a Thursday or a Friday), where it is
\* the Friday one week before the last; the iteration of a year from 100 on
\* generates it once, in that year.
C24_ArborDay ==
  Returned("yearDates") =>
    LET FiveFridays(y) ==
          Cardinality(OccurrencesInMonth(y, 3, WEEKDAY.Friday)) = 5
        FirstOfApril(y) == getUTCDay(DateUTC(y, 3, 1))
        LastFriday(y) == lastWeekdayOfMonth(y, 3, WEEKDAY.Friday)
        Arbor(d) ==
          LET y == getUTCFullYear(d)
          IN  /\ d % MinPerDay = 0
              /\ getUTCDay(d) = WEEKDAY.Friday
              /\ getUTCMonth(d) = 3
              /\ getUTCDate(d) \in 22..28
              /\ d = FirstOccurrence(y, 3, WEEKDAY.Friday) + 21 * MinPerDay
              /\ FiveFridays(y)
                   <=> FirstOfApril(y) \in {WEEKDAY.Thursday, WEEKDAY.Friday}
              /\ IF FiveFridays(y)
                   THEN d = addDaysUtc(LastFriday(y), -7)
                   ELSE d = LastFriday(y)
    IN  /\ \A d \in GeneratedDates("Arbor Day") : Arbor(d)
        /\ arg.year >= 100 =>
             /\ Cardinality(GeneratedDates("Arbor Day")) = 1
             /\ \A d \in GeneratedDates("Arbor Day") :
                  getUTCFullYear(d) = arg.year

\* April 2022 begins on a Friday and has five Fridays: Arbor Day is generated
\* on 22 April 2022, a week before the last Friday, 29 April
C24_Witness ==
  /\ Returned("yearDates") /\ arg.year = 2022 /\ arg.endYear = 2022
  /\ GeneratedDates("Arbor Day") = {DateUTC(2022, 3, 22)}
  /\ lastWeekdayOfMonth(2022, 3, WEEKDAY.Friday) = DateUTC(2022, 3, 29)
  /\ OccurrencesInMonth(2022, 3, WEEKDAY.Friday) = {1, 8, 15, 22, 29}

\* April 2024 has four Fridays: Arbor Day is the last of them, 26 April
ArborDayIsLastFriday2024 ==
  /\ Returned("yearDates") /\ arg.year = 2024 /\ arg.endYear = 2024
  /\ GeneratedDates("Arbor Day") = {DateUTC(2024, 3, 26)}
  /\ lastWeekdayOfMonth(2024, 3, WEEKDAY.Friday) = DateUTC(2024, 3, 26)

\* the 38 events of the table for year y, in table order
TableEvents(y) ==
  LET D == YearDates(y)
  IN  [i \in 1..Len(holidayCandidates(D)) |->
         makeGeneratedEvent(holidayCandidates(D)[i][1], holidayCandidates(D)[i][2],
                            HolidayCategory)]
      \o [i \in 1..Len(observanceCandidates(D)) |->
            makeGeneratedEvent(observanceCandidates(D)[i][1],
                               observanceCandidates(D)[i][2], ObservanceCategory)]

\* C25: for every year Y in 1900..2100 every rule of the table yields a date
\* of calendar year Y, so the year filter and the de-duplication remove
\* nothing: the iteration appends 38 events (16 of category Holiday, then 22
\* of category Observance, in table order), and a call for Y and the year
\* after it returns the 38 events of Y followed by the 38 events of Y + 1.
C25_ThirtyEightPerYear ==
  (Returned("yearDates") /\ arg.year \in 1900..2100) =>
    LET appended == YearEvents(ret, arg.startYear, arg.endYear)
        last == IF arg.year < 2100 THEN arg.year + 1 ELSE arg.year
        call == makeUsFederalHolidays(
                  [now |-> Omitted, startYear |-> Given(arg.year), endYear |-> Given(last)],
                  0, 0)
    IN  /\ Len(holidayCandidates(ret)) = 16
        /\ Len(observanceCandidates(ret)) = 22
        /\ \A i \in DOMAIN Candidates(ret) :
             getUTCFullYear(Candidates(ret)[i][2]) = arg.year
        /\ appended = TableEvents(arg.year)
        /\ Len(appended) = 38
        /\ \A i \in 1..38 :
             appended[i].category = (IF i <= 16 THEN "Holiday" ELSE "Observance")
        /\ \A i, j \in 1..38 : i # j => appended[i].id # appended[j].id
        /\ DedupeById(appended) = appended
        /\ call = (IF last = arg.year THEN TableEvents(arg.year)
                   ELSE TableEvents(arg.year) \o TableEvents(last))
        /\ Len(call) = 38 * (last - arg.year + 1)

\* the iteration of 2024 in a call for 2024 alone: 38 events, from New Year's
\* Day to Tax Day
C25_Witness ==
  /\ Returned("yearDates") /\ arg.year = 2024 /\ arg.endYear = 2024
  /\ LET appended == YearEvents(ret, arg.startYear, arg.endYear)
     IN  /\ Len(appended) = 38
         /\ appended[1].start = "2024-01-01" /\ appended[1].category = "Holiday"
         /\ appended[16].category = "Holiday"
         /\ appended[17].start = "2024-12-31" /\ appended[17].category = "Observance"
         /\ appended[38].start = "2024-04-15"

\* the same on the calls of makeUsFederalHolidays: a call whose range lies in
\* 1900..2100 returns the tables of its years, one after the other
CallReturnsTablesInYearOrder ==
  (Done /\ startYear <= endYear /\ startYear >= 1900 /\ endYear <= 2100) =>
    /\ Len(result) = 38 * (endYear - startYear + 1)
    /\ \A y \in startYear..endYear :
         SubSeq(result, 38 * (y - startYear) + 1, 38 * (y - startYear) + 38)
           = TableEvents(y)

\* C26: for every year Y in 1900..2100, easterSundayUtc(Y) is a calendar date
\* of year Y that falls on a Sunday and lies between 22 March and 25 April
\* inclusive: the month is March or April and the day is within the month.
C26_EasterWindow ==
  (Returned("easterSundayUtc") /\ arg.year \in 1900..2100) =>
    /\ ret % MinPerDay = 0
    /\ getUTCFullYear(ret) = arg.year
    /\ getUTCDay(ret) = WEEKDAY.Sunday
    /\ \/ getUTCMonth(ret) = 2 /\ getUTCDate(ret) \in 22..31
       \/ getUTCMonth(ret) = 3 /\ getUTCDate(ret) \in 1..25
    /\ DateUTC(arg.year, 2, 22) <= ret /\ ret <= DateUTC(arg.year, 3, 25)
    /\ ret = DateUTC(CivilDate(ret)[1], CivilDate(ret)[2] - 1, CivilDate(ret)[3])

\* the latest Easter of the range, 25 April 2038, and the earliest, 23 March 2008
C26_Witness ==
  /\ Returned("easterSundayUtc")
  /\ \/ arg.year = 2038 /\ CivilDate(ret) = <<2038, 4, 25>>
     \/ arg.year = 2008 /\ CivilDate(ret) = <<2008, 3, 23>>
  /\ getUTCDay(ret) = WEEKDAY.Sunday

\* the answers of the select that a step of the merge has consumed
AnsweredData ==
  {it \in Pending("refreshFromDb.data") : CopiesIn(it, inflight') < CopiesIn(it, inflight)}

\* the events of a list that the generator did not produce
EnteredByUser(evs) == {e \in Range(evs) : ~IsGeneratedId(e.id)}

\* evs is the generated list followed by the union by id of the rows of data
\* and the events of locals; a row wins over a local event of its id, a local
\* event without a row is kept, and is in the upsert that reqs ends with
MergedById(data, locals, evs, reqs) ==
  LET n == Len(baseHolidayEvents)
      users == SubSeq(evs, n + 1, Len(evs))
      rowIds == {data[i].id : i \in 1..Len(data)}
      toKeep == {e \in locals : e.id \notin rowIds}
  IN  /\ Len(evs) >= n
      /\ SubSeq(evs, 1, n) = baseHolidayEvents
      /\ {users[i].id : i \in 1..Len(users)} = rowIds \cup {e.id : e \in locals}
      /\ \A i \in 1..Len(data) : \E j \in 1..Len(users) : users[j] = DbEvent(data[i])
      /\ \A e \in toKeep : Holds(users, Spread(e, [source |-> "user"]))
      /\ toKeep # {} =>
           /\ Len(reqs) = Len(requests) + 1
           /\ reqs[Len(reqs)].op = "upsert"
           /\ {r.id : r \in Range(reqs[Len(reqs)].rows)} = {e.id : e \in toKeep}
           /\ \A e \in toKeep : UpsertRow(e) \in Range(reqs[Len(reqs)].rows)
      /\ toKeep = {} => reqs = requests
      /\ \A i, j \in 1..Len(users) : i # j => users[i].id # users[j].id
      /\ \A i \in 1..Len(users) : ~IsGeneratedId(users[i].id)

\* C27: after a refreshFromDb that completes while signed in, the events of
\* the store are the freshly generated holidays followed by the union, by id,
\* of the backend rows and the local user events (the events of the store
\* that the user entered): the backend row wins for an id present in both, a
\* local user event absent from the backend is kept and upserted, and no id
\* occurs twice.
C27_RefreshMergesById ==
  [][fn' = "refreshFromDb.data"
       => \A it \in AnsweredData :
            MergedById(it.body, EnteredByUser(state.events), state'.events, requests')]_vars

\* the same with the events that keepUserEvents lets through as the local
\* user events (those that are not of category Holiday), which holds
RefreshMergesKeptEvents ==
  [][fn' = "refreshFromDb.data"
       => /\ AnsweredData # {}
          /\ \A it \in AnsweredData :
               MergedById(it.body, Range(keepUserEvents(state.events)),
                          state'.events, requests')]_vars

\* a merge of a backend row (u3) with a local event that the backend does not
\* hold (u1), which is kept and upserted
RefreshMergedRowAndLocal ==
  /\ fn = "refreshFromDb.data"
  /\ \E i \in 1..Len(state.events) : state.events[i].id = "u3" /\ state.events[i].category = "Personal"
  /\ \E i \in 1..Len(state.events) : state.events[i].id = "u1"
  /\ Len(requests) > 0 /\ requests[Len(requests)].op = "upsert"
  /\ \E r \in Range(requests[Len(requests)].rows) : r.id = "u1"

\* an event with this id is in the list / a row with this id is in the table
InStore(evs, id) == \E i \in 1..Len(evs) : evs[i].id = id

InBackend(rows, id) == \E r \in rows : r.id = id

\* C28: once removeEvent(id) has removed a user event while signed in, no step
\* of an in-flight or later refreshFromDb, in any interleaving, puts an event
\* with that id back into the store or creates a row with that id in the
\* backend again, unless addEvent is called again with that id.
C28_RemovedStaysRemoved ==
  [][\A id \in removed' :
       /\ ~InStore(state'.events, id)
       /\ (/\ fn' = "write" /\ arg' = <<"refreshFromDb">>
           /\ id \in removed /\ ~InBackend(supabase.rows, id))
            => ~InBackend(supabase'.rows, id)]_vars

\* the part of the statement about the backend alone: the upsert of a
\* refreshFromDb creates no row under the id of a removed event
RemovedNotUpsertedByRefresh ==
  [][\A id \in removed' :
       (/\ fn' = "write" /\ arg' = <<"refreshFromDb">>
        /\ id \in removed /\ ~InBackend(supabase.rows, id))
         => ~InBackend(supabase'.rows, id)]_vars

\* the part about the store alone
RemovedNotBackInStore ==
  [][\A id \in removed' : ~InStore(state'.events, id)]_vars

\* the backend has carried out the delete of a removed event, no request is
\* on its way, and the merge of a refresh that had read the table before the
\* delete has put the event back into the store
RemovedEventIsBack ==
  /\ fn = "refreshFromDb.data"
  /\ \E id \in removed :
       /\ InStore(state.events, id)
       /\ ~InBackend(supabase.rows, id)
       /\ requests[Len(requests)] = Request("delete", id, <<>>)
  /\ Pending("write") = {}

\* a removal that stays: the delete is done and no refresh is in flight
RemovedEventIsGone ==
  /\ fn = "write"
  /\ \E id \in removed : ~InStore(state.events, id) /\ ~InBackend(supabase.rows, id)
  /\ inflight = EmptyBag

(***************************************************************************)
(* The saved places of useCalendarStore.  Strings are sequences of         *)
(* characters, so that trimming, lower-casing and the collapsing of white  *)
(* space are computed.                                                     *)
(***************************************************************************)
\* the limit of `merged.slice(0, 50)`
SavedPlacesLimit == 50

\* number of different places that the user knows
MaxAddresses == 52

\* number of operations on the saved places in a behaviour
MaxPlaceOps == 2

WhiteSpace == {" ", "\t"}

\* String.prototype.trim
RECURSIVE trimStart(_)
trimStart(s) == IF s # <<>> /\ Head(s) \in WhiteSpace THEN trimStart(Tail(s)) ELSE s

RECURSIVE trimEnd(_)
trimEnd(s) ==
  IF s # <<>> /\ s[Len(s)] \in WhiteSpace THEN trimEnd(SubSeq(s, 1, Len(s) - 1)) ELSE s

trim(s) == trimEnd(trimStart(s))

\* replace(/\s+/g, ' '): every run of white space becomes one space
RECURSIVE collapseWhiteSpace(_)
collapseWhiteSpace(s) ==
  IF s = <<>> THEN <<>>
  ELSE IF Head(s) \in WhiteSpace
    THEN <<" ">> \o collapseWhiteSpace(trimStart(s))
  ELSE <<Head(s)>> \o collapseWhiteSpace(Tail(s))

\* the key without lower-casing
normalizePlaceKeyCased(address) == collapseWhiteSpace(trim(address))

normalizePlaceKey(address) == collapseWhiteSpace(toLowerCase(trim(address)))

\* a.split(',')[0]
RECURSIVE BeforeComma(_)
BeforeComma(s) ==
  IF s = <<>> \/ Head(s) = "," THEN <<>> ELSE <<Head(s)>> \o BeforeComma(Tail(s))

safePlaceLabel(label, address) ==
  LET clean == IF label # Omitted THEN trim(label[1]) ELSE <<>>
      a == trim(address)
      firstPart == trim(BeforeComma(a))
  IN  IF clean # <<>> THEN clean
      ELSE IF a = <<>> THEN <<"S", "a", "v", "e", "d", " ", "p", "l", "a", "c", "e">>
      ELSE IF firstPart # <<>> THEN firstPart
      ELSE a

\* the list as it is
sortByLastUsedNone(places) == places

\* merged.sort((a, b) => b.lastUsedAt - a.lastUsedAt): a stable sort, latest first
sortByLastUsed(places) ==
  LET RECURSIVE Desc(_)
      Desc(times) ==
        IF times = {} THEN <<>>
        ELSE LET latest == CHOOSE t \in times : \A u \in times : u <= t
                 At(p) == p.lastUsedAt = latest
             IN  SelectSeq(places, At) \o Desc(times \ {latest})
  IN  Desc({places[i].lastUsedAt : i \in 1..Len(places)})

\* the savedPlaces that upsertSavedPlace(place) sets at time now; place.address
\* is Omitted when it is no string
upsertSavedPlaceSet(savedPlaces, place, now) ==
  LET address == IF place.address # Omitted THEN trim(place.address[1]) ELSE <<>>
      key == normalizePlaceKey(address)
      label == safePlaceLabel(place.label, address)
      found == {i \in 1..Len(savedPlaces) : savedPlaces[i].key = key}
      next == IF found # {}
                THEN LET existing == savedPlaces[CHOOSE i \in found : \A j \in found : i <= j]
                     IN  [existing EXCEPT !.label = label, !.address = address,
                                          !.lastUsedAt = now]
                ELSE [key |-> key, label |-> label, address |-> address,
                      createdAt |-> now, lastUsedAt |-> now]
      Other(p) == p.key # key
      without == SelectSeq(savedPlaces, Other)
      merged == sortByLastUsed(<<next>> \o without)
  IN  IF address = <<>> THEN savedPlaces
      ELSE SubSeq(merged, 1, IF Len(merged) < SavedPlacesLimit THEN Len(merged)
                             ELSE SavedPlacesLimit)

\* the savedPlaces that removeSavedPlace(key) sets; key is Omitted when it is
\* no string
removeSavedPlaceSet(savedPlaces, key) ==
  LET clean == IF key # Omitted THEN key[1] ELSE <<>>
      Other(p) == p.key # clean
  IN  IF clean = <<>> THEN savedPlaces ELSE SelectSeq(savedPlaces, Other)

(***************************************************************************)
(* Specification SpecPlaces: upsertSavedPlace, removeSavedPlace and        *)
(* clearSavedPlaces.  The user knows MaxAddresses places and types the     *)
(* address of a place plainly ("no 07") or in capitals with more white     *)
(* space ("  NO \t 07 ").  A behaviour starts after the user has saved     *)
(* none, one, all but one or all of the places that the list can hold,     *)
(* one per tick of the clock; Date.now() moves forward, or back when the   *)
(* clock of the machine is set back.                                       *)
(***************************************************************************)
TwoDigits(n) == <<Digits[(n \div 10) + 1], Digits[(n % 10) + 1]>>

PlainAddress(n) == <<"n", "o", " ">> \o TwoDigits(n)

CapitalAddress(n) == <<" ", " ", "N", "O", " ", "\t", " ">> \o TwoDigits(n) \o <<" ">>

DigitValue(c) == CHOOSE d \in 0..9 : Digits[d + 1] = c

\* the place that an address means: the number that the address ends with
PlaceNumber(address) ==
  10 * DigitValue(address[Len(address) - 1]) + DigitValue(address[Len(address)])

\* the list after the user has saved the places 1..k, place n at time n
SavedInOrder(k) ==
  [i \in 1..k |->
     [key |-> PlainAddress(k + 1 - i), label |-> PlainAddress(k + 1 - i),
      address |-> PlainAddress(k + 1 - i), createdAt |-> k + 1 - i,
      lastUsedAt |-> k + 1 - i]]

\* saving place k at time k makes SavedInOrder(k) of SavedInOrder(k - 1)
SavedByUpserts(k) ==
  \A n \in 1..k :
    SavedInOrder(n) = upsertSavedPlaceSet(SavedInOrder(n - 1),
                        [address |-> Given(PlainAddress(n)), label |-> Omitted], n)

InitialCounts == {0, 1, SavedPlacesLimit - 1, SavedPlacesLimit}

PlacesSlice(st) == Given([savedPlaces |-> st.savedPlaces])

InitPlaces ==
  /\ pc = "places" /\ fn = Absent /\ arg = NoArg /\ ret = Absent
  /\ options = [now |-> Omitted, startYear |-> Omitted, endYear |-> Omitted] /\ tz = 0
  /\ startYear = Absent /\ endYear = Absent /\ year = Absent
  /\ events = <<>> /\ result = Absent /\ calls = 0 /\ first = Absent
  /\ \E k \in InitialCounts :
       /\ SavedByUpserts(k)
       /\ state = [savedPlaces |-> SavedInOrder(k)]
       /\ clock = k
  /\ localStorage = PlacesSlice(state)
  /\ initOnce = FALSE /\ supabase = Absent /\ requests = <<>> /\ inflight = <<>>
  /\ ops = 0 /\ removed = {} /\ host = Absent

\* the places of the list that the user picks again: the latest and the oldest
PickedAgain ==
  IF state.savedPlaces = <<>> THEN {}
  ELSE {PlaceNumber(state.savedPlaces[1].address),
        PlaceNumber(state.savedPlaces[Len(state.savedPlaces)].address)}

\* a place that is not in the list
NewPlace ==
  LET saved == {PlaceNumber(state.savedPlaces[i].address) : i \in 1..Len(state.savedPlaces)}
      others == (1..MaxAddresses) \ saved
  IN  CHOOSE n \in others : \A m \in others : n <= m

PlaceInputs ==
  {[address |-> Given(PlainAddress(NewPlace)), label |-> Omitted]}
    \cup {[address |-> Given(CapitalAddress(n)),
           label |-> Given(<<" ", "H", "o", "m", "e", " ">>)] : n \in PickedAgain}
    \cup {[address |-> Given(<<" ", "\t", " ">>), label |-> Given(<<"X">>)],
          [address |-> Given(<<>>), label |-> Omitted],
          [address |-> Omitted, label |-> Omitted]}

\* Date.now(): a tick later, or earlier than the last reading
Nows == {clock + 1} \cup {t \in {clock - 2} : t > 0}

KeyInputs ==
  {Given(normalizePlaceKey(CapitalAddress(n))) : n \in PickedAgain}
    \cup {Given(trim(CapitalAddress(n))) : n \in PickedAgain}
    \cup {Given(<<>>), Omitted}

PlacesStep(name, a) ==
  /\ fn' = name
  /\ arg' = a
  /\ localStorage' = PlacesSlice(state')
  /\ ops' = ops + 1
  /\ UNCHANGED <<pc, ret, options, tz, startYear, endYear, year, events, result,
                 calls, first, initOnce, supabase, requests, inflight, removed, host>>

upsertSavedPlace(place) ==
  /\ pc = "places"
  /\ ops < MaxPlaceOps
  /\ \E now \in Nows :
       /\ state' = [state EXCEPT !.savedPlaces = upsertSavedPlaceSet(@, place, now)]
       /\ clock' = IF place.address = Omitted \/ trim(place.address[1]) = <<>>
                    THEN clock ELSE now
  /\ PlacesStep("upsertSavedPlace", <<place>>)

removeSavedPlace(key) ==
  /\ pc = "places"
  /\ ops < MaxPlaceOps
  /\ state' = [state EXCEPT !.savedPlaces = removeSavedPlaceSet(@, key)]
  /\ UNCHANGED clock
  /\ PlacesStep("removeSavedPlace", <<key>>)

clearSavedPlaces ==
  /\ pc = "places"
  /\ ops < MaxPlaceOps
  /\ state' = [state EXCEPT !.savedPlaces = <<>>]
  /\ UNCHANGED clock
  /\ PlacesStep("clearSavedPlaces", <<>>)

NextPlaces ==
  \/ \E place \in PlaceInputs : upsertSavedPlace(place)
  \/ \E key \in KeyInputs : removeSavedPlace(key)
  \/ clearSavedPlaces

SpecPlaces == InitPlaces /\ [][NextPlaces]_vars


\* the address is no string, is empty or holds white space only
BlankAddress(place) ==
  place.address = Omitted \/ \A i \in 1..Len(place.address[1]) : place.address[1][i] \in WhiteSpace

\* at most 50 entries, no place twice, every key the address in lower case
\* with single spaces and no white space around it, latest use first
PlacesInOrder(places) ==
  /\ Len(places) <= SavedPlacesLimit
  /\ \A i, j \in 1..Len(places) : i # j =>
       /\ places[i].key # places[j].key
       /\ PlaceNumber(places[i].address) # PlaceNumber(places[j].address)
  /\ \A i \in 1..Len(places) :
       places[i].key = PlainAddress(PlaceNumber(places[i].address))
  /\ \A i \in 1..(Len(places) - 1) : places[i].lastUsedAt >= places[i + 1].lastUsedAt

\* C29: after any sequence of upsertSavedPlace, removeSavedPlace and
\* clearSavedPlaces, savedPlaces holds at most 50 entries with pairwise
\* distinct keys (the trimmed, lower-cased, whitespace-collapsed address),
\* ordered by lastUsedAt descending; an upsert of an existing key keeps the
\* createdAt of its entry, and an upsert with an empty or blank address
\* changes nothing.
C29_SavedPlaces ==
  [][pc' = "places" =>
       /\ PlacesInOrder(state'.savedPlaces)
       /\ fn' = "upsertSavedPlace" =>
            LET place == arg'[1]
            IN  IF BlankAddress(place)
                  THEN state' = state /\ localStorage' = localStorage
                  ELSE /\ \A i \in 1..Len(state.savedPlaces) :
                            PlaceNumber(state.savedPlaces[i].address)
                                = PlaceNumber(trim(place.address[1]))
                              => \E j \in 1..Len(state'.savedPlaces) :
                                   /\ state'.savedPlaces[j].key = state.savedPlaces[i].key
                                   /\ state'.savedPlaces[j].createdAt
                                        = state.savedPlaces[i].createdAt
                                   /\ state'.savedPlaces[j].lastUsedAt = clock'
                                   /\ state'.savedPlaces[j].address = trim(place.address[1])
                       /\ Len(state'.savedPlaces) >= Len(state.savedPlaces)]_vars

\* the list is full, and the user has picked its oldest place again, typed in
\* capitals, after the clock was set back: the entry keeps its createdAt and
\* stands where its new lastUsedAt puts it
C29_Witness ==
  /\ pc = "places" /\ fn = "upsertSavedPlace"
  /\ Len(state.savedPlaces) = SavedPlacesLimit
  /\ \E j \in 2..(SavedPlacesLimit - 1) :
       /\ state.savedPlaces[j].address = trim(CapitalAddress(1))
       /\ state.savedPlaces[j].key = PlainAddress(1)
       /\ state.savedPlaces[j].createdAt = 1
       /\ state.savedPlaces[j].lastUsedAt = clock
       /\ state.savedPlaces[j].label = <<"H", "o", "m", "e">>

\* a 51st place was saved: the list holds 50 places, without the oldest
FiftyFirstPlaceSaved ==
  /\ pc = "places" /\ fn = "upsertSavedPlace"
  /\ Len(state.savedPlaces) = SavedPlacesLimit
  /\ state.savedPlaces[1].key = PlainAddress(SavedPlacesLimit + 1)
  /\ \A i \in 1..Len(state.savedPlaces) : state.savedPlaces[i].key # PlainAddress(1)

(***************************************************************************)
(* The component RemindersHost.  Times are in seconds; the start of an     *)
(* event is Given(t) when the string parses to the instant t, and Omitted  *)
(* when it does not parse.  The key `${e.id}@${remindAtMs}` is the pair    *)
(* <<id, remindAt>>.                                                       *)
(***************************************************************************)
\* 24 * 60 * 60 * 1000 ms
HorizonSeconds == 86400

\* 2 * 60 * 1000 ms
MissedSeconds == 120

\* rows.slice(0, 30)
RemindersLimit == 30

\* next.slice(0, 4)
ToastsLimit == 4

\* Date.now() when the component is mounted
MountTime == 1000000

\* number of changes of the store in a behaviour
MaxHostOps == 2

isUserEvent(e) == Field(e, "source") # "holiday" /\ ~startsWithHoliday(e.id)

\* parseISO, isValid and getTime
safeMs(iso) == IF iso = Omitted THEN Null ELSE iso[1]

\* startMs - Math.max(0, Math.round(e.reminderMinutesBefore)) * 60 * 1000
RemindAt(e) ==
  LET minutes == e.reminderMinutesBefore[1]
  IN  safeMs(e.start) - (IF minutes > 0 THEN minutes ELSE 0) * 60

\* rows.sort((a, b) => a.remindAtMs - b.remindAtMs): a stable sort, soonest first
sortByRemindAt(rows) ==
  LET RECURSIVE Asc(_)
      Asc(times) ==
        IF times = {} THEN <<>>
        ELSE LET soonest == CHOOSE t \in times : \A u \in times : t <= u
                 At(r) == r.remindAtMs = soonest
             IN  SelectSeq(rows, At) \o Asc(times \ {soonest})
  IN  Asc({rows[i].remindAtMs : i \in 1..Len(rows)})

\* the memo `reminders` of the events and of nowMs
Reminders(evs, nowMs) ==
  LET horizonMs == nowMs + HorizonSeconds
      Kept(e) ==
        /\ isUserEvent(e)
        /\ ~BooleanField(e, "done")
        /\ ~BooleanField(e, "allDay")
        /\ e.reminderMinutesBefore # Omitted
        /\ e.start # Omitted
        /\ ~(RemindAt(e) > horizonMs)
        /\ ~(RemindAt(e) < nowMs - MissedSeconds)
      kept == SelectSeq(evs, Kept)
      rows == [i \in 1..Len(kept) |->
                 [key |-> <<kept[i].id, RemindAt(kept[i])>>, event |-> kept[i],
                  remindAtMs |-> RemindAt(kept[i]), startMs |-> safeMs(kept[i].start)]]
      sorted == sortByRemindAt(rows)
  IN  SubSeq(sorted, 1, IF Len(sorted) < RemindersLimit THEN Len(sorted) ELSE RemindersLimit)

\* no key has fired
firedHasNone(fired, key) == FALSE

\* firedRef.current.has(key)
firedHas(fired, key) == key \in fired

\* fire(key, event, startMs, remindAtMs), on the refs and the state of the
\* component; shown counts the toasts and notified the notifications of
\* each key
fire(h, r, timeZone) ==
  IF firedHas(h.fired, r.key) THEN h
  ELSE LET body == <<"Starts at", r.startMs, timeZone>>
           toast == [id |-> r.key, title |-> r.event.title, body |-> body,
                     whenMs |-> r.remindAtMs]
           next == <<toast>> \o h.toasts
       IN  [h EXCEPT !.fired = @ \cup {r.key},
                     !.toasts = SubSeq(next, 1, IF Len(next) < ToastsLimit THEN Len(next)
                                                ELSE ToastsLimit),
                     !.shown = @ (+) SetToBag({r.key}),
                     !.notified = IF h.permission = "granted" THEN @ (+) SetToBag({r.key})
                                  ELSE @]

\* the timers that the effect sets at time now: window.setTimeout(run, delay),
\* or window.setTimeout(run, 0) for a reminder that is due
Scheduled(reminders, now) ==
  {[key |-> reminders[i].key,
    due |-> IF reminders[i].remindAtMs - now <= 0 THEN now ELSE reminders[i].remindAtMs,
    row |-> reminders[i]] : i \in 1..Len(reminders)}

(***************************************************************************)
(* Specification SpecHost: RemindersHost from its mounting on.  The store  *)
(* changes its events and its time zone, the clock goes on, the interval   *)
(* reads the clock into nowMs, React renders the component again and runs  *)
(* its effect some time after a change, and a timer that is due runs at    *)
(* any time before it is cleared.  The events of the store have distinct   *)
(* ids.                                                                    *)
(***************************************************************************)
HostGenerated ==
  [id |-> "holiday_2024-03-17_st_patrick_s_day_holiday", title |-> "St. Patrick's Day",
   start |-> Given(MountTime + 650), allDay |-> TRUE, done |-> FALSE,
   reminderMinutesBefore |-> Omitted, category |-> "Holiday", source |-> "holiday"]

HostDentist ==
  [id |-> "u1", title |-> "Dentist", start |-> Given(MountTime + 1200), allDay |-> FALSE,
   done |-> FALSE, reminderMinutesBefore |-> Given(10), category |-> "Work",
   source |-> "user"]

HostFamilyDay ==
  [id |-> "u2", title |-> "Family day", start |-> Given(MountTime + 700), allDay |-> FALSE,
   done |-> FALSE, reminderMinutesBefore |-> Given(-5), category |-> "Holiday",
   source |-> "user"]

HostTrip ==
  [id |-> "u3", title |-> "Trip", start |-> Given(MountTime + 90000), allDay |-> FALSE,
   done |-> FALSE, reminderMinutesBefore |-> Given(0), category |-> "Travel",
   source |-> "user"]

\* the values of s.events
EventLists ==
  {<<HostGenerated>>,
   <<HostGenerated, HostDentist>>,
   <<HostGenerated, HostDentist, HostFamilyDay>>,
   <<HostGenerated, [HostDentist EXCEPT !.done = TRUE]>>,
   <<HostGenerated, [HostDentist EXCEPT !.allDay = TRUE]>>,
   <<HostGenerated, [HostDentist EXCEPT !.start = Given(MountTime + 1500)]>>,
   <<HostGenerated, [HostDentist EXCEPT !.reminderMinutesBefore = Omitted]>>,
   <<HostGenerated, [HostDentist EXCEPT !.start = Omitted]>>,
   <<HostGenerated, HostTrip>>}

TimeZones == {"local", "Asia/Tokyo"}

\* the instants at which something happens
HostInstants == {MountTime + d : d \in {600, 615, 730}}

InitHost ==
  /\ pc = "host" /\ fn = Absent /\ arg = NoArg /\ ret = Absent
  /\ options = [now |-> Omitted, startYear |-> Omitted, endYear |-> Omitted] /\ tz = 0
  /\ startYear = Absent /\ endYear = Absent /\ year = Absent
  /\ events = <<>> /\ result = Absent /\ calls = 0 /\ first = Absent
  /\ localStorage = Absent /\ initOnce = FALSE /\ supabase = Absent
  /\ requests = <<>> /\ inflight = <<>> /\ ops = 0 /\ removed = {}
  /\ clock = MountTime
  /\ \E evs \in EventLists : state = [events |-> evs, timeZone |-> "local"]
  /\ \E permission \in {"granted", "default"} :
       host = [nowMs |-> 0, reminders |-> <<>>, timers |-> {}, fired |-> {},
               toasts |-> <<>>, shown |-> EmptyBag,
               notified |-> EmptyBag, stale |-> TRUE, permission |-> permission]

HostStep(name, a) ==
  /\ fn' = name
  /\ arg' = a
  /\ UNCHANGED <<pc, options, tz, startYear, endYear, year, events, result, calls,
                 first, localStorage, initOnce, supabase, requests, inflight, removed>>

\* the store has new events: the component is to render again
eventsChange(evs) ==
  /\ pc = "host"
  /\ ops < MaxHostOps
  /\ state' = [state EXCEPT !.events = evs]
  /\ host' = [host EXCEPT !.stale = TRUE]
  /\ ops' = ops + 1
  /\ UNCHANGED <<clock, ret>>
  /\ HostStep("events", <<>>)

timeZoneChanges(zone) ==
  /\ pc = "host"
  /\ ops < MaxHostOps
  /\ zone # state.timeZone
  /\ state' = [state EXCEPT !.timeZone = zone]
  /\ host' = [host EXCEPT !.stale = TRUE]
  /\ ops' = ops + 1
  /\ UNCHANGED <<clock, ret>>
  /\ HostStep("timeZone", <<zone>>)

\* time passes
advance ==
  /\ pc = "host"
  /\ \E t \in HostInstants : t > clock /\ clock' = t
  /\ UNCHANGED <<state, host, ops, ret>>
  /\ HostStep("advance", <<>>)

\* refresh, the callback of the interval and of the warm-up timer: setNowMs(Date.now())
refresh ==
  /\ pc = "host"
  /\ host.nowMs # clock
  /\ host' = [host EXCEPT !.nowMs = clock, !.stale = TRUE]
  /\ UNCHANGED <<state, clock, ops, ret>>
  /\ HostStep("refresh", <<>>)

\* the component renders and its effect runs: the memo is computed, the
\* timers of the map are cleared and the reminders are scheduled
rescheduleTimers ==
  /\ pc = "host"
  /\ host.stale
  /\ LET reminders == Reminders(state.events, host.nowMs)
     IN  host' = [host EXCEPT !.reminders = reminders,
                              !.timers = Scheduled(reminders, clock),
                              !.stale = FALSE]
  /\ UNCHANGED <<state, clock, ops, ret>>
  /\ HostStep("effect", <<>>)

\* a timer that is due calls run; ret tells whether fire returned early
timerRuns ==
  /\ pc = "host"
  /\ \E t \in host.timers :
       /\ t.due <= clock
       /\ host' = fire([host EXCEPT !.timers = @ \ {t}], t.row, state.timeZone)
       /\ ret' = IF firedHas(host.fired, t.key) THEN "returned" ELSE "fired"
       /\ HostStep("run", <<t.key>>)
  /\ UNCHANGED <<state, clock, ops>>

\* the user dismisses a toast
dismiss ==
  /\ pc = "host"
  /\ \E i \in 1..Len(host.toasts) :
       LET Other(x) == x.id # host.toasts[i].id
       IN  /\ host' = [host EXCEPT !.toasts = SelectSeq(@, Other)]
           /\ HostStep("dismiss", <<host.toasts[i].id>>)
  /\ UNCHANGED <<state, clock, ops, ret>>

NextHost ==
  \/ \E evs \in EventLists : eventsChange(evs)
  \/ \E zone \in TimeZones : timeZoneChanges(zone)
  \/ advance
  \/ refresh
  \/ rescheduleTimers
  \/ timerRuns
  \/ dismiss

SpecHost == InitHost /\ [][NextHost]_vars

\* the events that are not to be reminded of: generated, done or all-day
NoReminderFor(e) ==
  \/ Field(e, "source") = "holiday"
  \/ e.id \notin PlainIds
  \/ e.done
  \/ e.allDay

\* C30: over any sequence of reschedules of the timers, caused by changes of
\* the events, of the time or of the time zone, each reminder key (the id of
\* the event with its remind time) fires at most once and produces at most
\* one toast and one notification, and no timer is set for a generated
\* holiday event, a done event or an all-day event.
C30_RemindersFireOnce ==
  pc = "host" =>
    /\ \A key \in BagToSet(host.shown) \cup host.fired :
         /\ CopiesIn(key, host.shown) <= 1
         /\ CopiesIn(key, host.notified) <= 1
         /\ CopiesIn(key, host.notified) <= CopiesIn(key, host.shown)
    /\ BagToSet(host.shown) = host.fired
    /\ \A i, j \in 1..Len(host.toasts) : i # j => host.toasts[i].id # host.toasts[j].id
    /\ \A t \in host.timers : ~NoReminderFor(t.row.event)
    /\ ~host.stale =>
         \A t \in host.timers :
           \E i \in 1..Len(state.events) :
             /\ state.events[i] = t.row.event
             /\ ~NoReminderFor(state.events[i])
    /\ fn = "effect" =>
         \A i \in 1..Len(state.events) :
           NoReminderFor(state.events[i])
             => \A t \in host.timers : t.key[1] # state.events[i].id

\* the timer of a key that has fired was set again by a later run of the
\* effect and ran again: one toast and one notification
C30_Witness ==
  /\ pc = "host" /\ fn = "run" /\ ret = "returned"
  /\ host.permission = "granted"
  /\ \E key \in host.fired :
       /\ arg = <<key>>
       /\ CopiesIn(key, host.shown) = 1
       /\ CopiesIn(key, host.notified) = 1

\* the effect has run with the clock read and a done event in the store: no
\* timer is set
DoneEventUnscheduled ==
  /\ pc = "host" /\ fn = "effect"
  /\ host.timers = {}
  /\ host.reminders = <<>>
  /\ \E i \in 1..Len(state.events) : state.events[i].id = "u1" /\ state.events[i].done
  /\ host.nowMs > 0

====
